---- MODULE Spec2Model ----
(***************************************************************************)
(* A model of the New Solar compiler front end (src/compiler2): the        *)
(* driver loop of nscomp.py, the type helpers and the symbol-table builder *)
(* of nsstbuilder.py over the scopes of nssymtab.py, and the semantic      *)
(* checker of nschk.py.                                                    *)
(*                                                                         *)
(* Python values are records tagged by a field k: AST nodes carry the name *)
(* of their class, None is [k |-> "None"], a str is [k |-> "str"], a       *)
(* symbol object is referred to by its index in the symbol store.          *)
(***************************************************************************)
EXTENDS Integers, Sequences, FiniteSets, TLC

VARIABLES
    \* ---- nscomp.main ----
    dFile,      \* index of the input file the for loop is at
    dpc,        \* the stage main is about to run for that file
    dSuccess,   \* main's local `success`
    dRan,       \* per file: the stages started, in order
    dRes,       \* per file: how each started stage ended
    dWritten,   \* files whose output file was written
    dExc,       \* main's exception_output (the files that raised)
    \* ---- nssymtab: the scope tree and the symbol objects ----
    tabs,       \* the SymbolTable objects, by index; tabs[1] is the ModuleTable
    syms,       \* the Symbol objects, by index
    \* ---- calls of the type helpers of nsstbuilder ----
    tpc,        \* "args" before the call, then the helper that was called
    tScope,     \* the scope argument
    tA, tB,     \* the type arguments
    tOut,       \* what the calls returned
    \* ---- GenerateTable and Checker on one module ----
    ast,        \* the Module, as the visitors have changed it so far
    pc,         \* where the two stages are
    idx,        \* index of the top-level declaration visited next
    bld,        \* the __STNodeVisitor: curtab, globalpass, success
    chk,        \* the Checker: scope, success, typedef_check, typenames, ...
    log,        \* the diagnostics the logger has received
    exc,        \* class of the exception that left the stage, "" for none
    the_tree,   \* nsstbuilder.__the_tree, 0 for None
    hist,       \* per finished Checker run: the AST and its diagnostics
    \* ---- nslex.Lexer.lex_all and nsparse.Parser on one source ----
    source,     \* the source text, a sequence of characters
    lexer,      \* the Lexer: srcpos, curln, curcol, success, log
    tokens,     \* the list lex_all is building
    lpc,        \* where lex_all is, and how it ended
    parsed      \* what the Parser returned for the tokens

driverVars == <<dFile, dpc, dSuccess, dRan, dRes, dWritten, dExc>>

tableVars == <<tabs, syms>>

typeVars == <<tpc, tScope, tA, tB, tOut>>

compileVars == <<ast, pc, idx, bld, chk, log, exc, the_tree, hist>>

lexVars == <<source, lexer, tokens, lpc, parsed>>

vars == <<dFile, dpc, dSuccess, dRan, dRes, dWritten, dExc,
          tabs, syms, tpc, tScope, tA, tB, tOut,
          ast, pc, idx, bld, chk, log, exc, the_tree, hist,
          source, lexer, tokens, lpc, parsed>>

(***************************************************************************)
(* nscomp.py: main                                                         *)
(***************************************************************************)
NumFiles == 2

Files == 1..NumFiles

\* How a stage can end: its success flag true, its success flag false
\* (or GenerateTable returning False), or an exception.
Outcomes == {"ok", "flag", "raise"}

StageOrder == <<"lex", "parse", "build", "check", "codegen", "write">>

\* Where the loop goes when the body of the current file is left.
NextFilePc(file) == IF file + 1 > NumFiles THEN "summary" ELSE "lex"

\* A stage whose failure is not followed by `continue`.
StageEndNoContinue(o, file, next) ==
    [ pc      |-> next,
      file    |-> file,
      success |-> (o = "ok"),
      raised  |-> (o = "raise") ]

\* The end of one try block of main: on success fall through to the next
\* stage; otherwise success = False, the exception (if any) is recorded and
\* `continue` moves to the next input file.
StageEnd(o, file, next) ==
    IF o = "ok"
    THEN [ pc |-> next, file |-> file, success |-> TRUE, raised |-> FALSE ]
    ELSE [ pc |-> NextFilePc(file), file |-> file + 1,
           success |-> FALSE, raised |-> (o = "raise") ]

RunStage(stage, next) ==
    /\ dpc = stage
    /\ dFile \in Files
    /\ \E o \in Outcomes :
        LET e == StageEnd(o, dFile, next) IN
        /\ dRan' = [dRan EXCEPT ![dFile] = Append(@, stage)]
        /\ dRes' = [dRes EXCEPT ![dFile] = Append(@, o)]
        /\ dpc' = e.pc
        /\ dFile' = e.file
        /\ dSuccess' = (dSuccess /\ e.success)
        /\ dExc' = IF e.raised THEN Append(dExc, dFile) ELSE dExc
        /\ UNCHANGED <<dWritten, tableVars, typeVars, compileVars, lexVars>>

Lex ==
    /\ dpc = "lex"
    /\ RunStage("lex", "parse")

Parse ==
    /\ dpc = "parse"
    /\ RunStage("parse", "build")

BuildSymbols ==
    /\ dpc = "build"
    /\ RunStage("build", "check")

Check ==
    /\ dpc = "check"
    /\ RunStage("check", "codegen")

Codegen ==
    /\ dpc = "codegen"
    /\ RunStage("codegen", "write")

\* The output file is written after the last try block, then the loop
\* moves on.
WriteOutput ==
    /\ dpc = "write"
    /\ dFile \in Files
    /\ dRan' = [dRan EXCEPT ![dFile] = Append(@, "write")]
    /\ dRes' = [dRes EXCEPT ![dFile] = Append(@, "ok")]
    /\ dWritten' = dWritten \cup {dFile}
    /\ dFile' = dFile + 1
    /\ dpc' = NextFilePc(dFile)
    /\ UNCHANGED <<dSuccess, dExc, tableVars, typeVars, compileVars, lexVars>>

\* After the loop: the summary line and except_out.txt.
Summary ==
    /\ dpc = "summary"
    /\ dpc' = "done"
    /\ UNCHANGED <<dFile, dSuccess, dRan, dRes, dWritten, dExc>>
    /\ UNCHANGED <<tableVars, typeVars, compileVars, lexVars>>

\* The variables of the other parts of the model, at rest.
TablesIdle == tabs = <<>> /\ syms = <<>>

LexIdle ==
    source = <<>> /\ lexer = 0 /\ tokens = <<>> /\ lpc = "idle" /\ parsed = 0

TypesIdle == tpc = "idle" /\ tScope = 0 /\ tA = 0 /\ tB = 0 /\ tOut = 0

CompileIdle ==
    /\ ast = 0
    /\ pc = "idle"
    /\ idx = 0
    /\ bld = 0
    /\ chk = 0
    /\ log = <<>>
    /\ exc = ""
    /\ the_tree = 0
    /\ hist = <<>>

DriverIdle ==
    /\ dFile = 0
    /\ dpc = "idle"
    /\ dSuccess = TRUE
    /\ dRan = <<>>
    /\ dRes = <<>>
    /\ dWritten = {}
    /\ dExc = <<>>

DriverInit ==
    /\ dFile = 1
    /\ dpc = "lex"
    /\ dSuccess = TRUE
    /\ dRan = [f \in Files |-> <<>>]
    /\ dRes = [f \in Files |-> <<>>]
    /\ dWritten = {}
    /\ dExc = <<>>
    /\ TablesIdle
    /\ TypesIdle
    /\ LexIdle
    /\ CompileIdle

DriverNext ==
    \/ Lex
    \/ Parse
    \/ BuildSymbols
    \/ Check
    \/ Codegen
    \/ WriteOutput
    \/ Summary

SpecDriver == DriverInit /\ [][DriverNext]_vars

(***************************************************************************)
(* C1                                                                      *)
(***************************************************************************)
IsPrefix(s, t) == Len(s) <= Len(t) /\ \A i \in 1..Len(s) : s[i] = t[i]

FileFailed(f) == \E i \in 1..Len(dRes[f]) : dRes[f][i] # "ok"

None == [k |-> "None"]

\* A Python str where an AST node is expected.
PyStr(s) == [k |-> "str", v |-> s]

VoidType(vol) == [k |-> "VoidType", is_volatile |-> vol]

RefType(vol, name) ==
    [k |-> "RefType", is_volatile |-> vol, ref_type_name |-> name]

IntType(vol, type) == [k |-> "IntType", is_volatile |-> vol, type |-> type]

ArrayType(vol, inner, size) ==
    [k |-> "ArrayType", is_volatile |-> vol, inner_type |-> inner,
     size |-> size]

FuncType(vol, ret, params, variadic) ==
    [k |-> "FuncType", is_volatile |-> vol, return_type |-> ret,
     param_types |-> params, is_variadic |-> variadic]

StructType(vol, members) ==
    [k |-> "StructType", is_volatile |-> vol, members |-> members]

UnionType(vol, members) ==
    [k |-> "UnionType", is_volatile |-> vol, members |-> members]

MemberData(name, type, bits) ==
    [k |-> "MemberData", name |-> name, type |-> type, bits |-> bits]

TInt == IntType(FALSE, "int")

TLong == IntType(FALSE, "long")

TypeClasses ==
    {"VoidType", "RefType", "IntType", "ArrayType", "FuncType",
     "StructType", "UnionType"}

\* isinstance(v, ast.Type)
IsType(v) == v.k \in TypeClasses

\* The four span fields lineno, col_offset, end_lineno, end_col_offset.
Span(lineno, col_offset, end_lineno, end_col_offset) ==
    <<lineno, col_offset, end_lineno, end_col_offset>>

Module(decls, loc) ==
    [k |-> "Module", decls |-> decls, symref |-> None, loc |-> loc]

VarDecl(name, type, value, static, loc) ==
    [k |-> "VarDecl", name |-> name, type |-> type, value |-> value,
     is_static |-> static, symref |-> None, loc |-> loc]

ConstDecl(name, type, value, static, loc) ==
    [k |-> "ConstDecl", name |-> name, type |-> type, value |-> value,
     is_static |-> static, symref |-> None, loc |-> loc]

FuncDecl(name, type, param_names, body, static, inline, loc) ==
    [k |-> "FuncDecl", name |-> name, type |-> type,
     param_names |-> param_names, body |-> body, is_static |-> static,
     is_inline |-> inline, symref |-> None, loc |-> loc]

TypeDecl(name, type, loc) ==
    [k |-> "TypeDecl", name |-> name, type |-> type, symref |-> None,
     loc |-> loc]

DefStmt(decl, loc) ==
    [k |-> "DefStmt", decl |-> decl, symref |-> None, loc |-> loc]

CompoundStmt(stmts, loc) ==
    [k |-> "CompoundStmt", stmts |-> stmts, symref |-> None, loc |-> loc]

ExprStmt(expr, loc) ==
    [k |-> "ExprStmt", expr |-> expr, symref |-> None, loc |-> loc]

\* A label is a name; "" stands for label = None.
ContinueStmt(label, loc) ==
    [k |-> "ContinueStmt", label |-> label, symref |-> None, loc |-> loc]

BreakStmt(breakif, label, loc) ==
    [k |-> "BreakStmt", breakif |-> breakif, label |-> label,
     symref |-> None, loc |-> loc]

ReturnStmt(ret_expr, loc) ==
    [k |-> "ReturnStmt", ret_expr |-> ret_expr, symref |-> None, loc |-> loc]

IfStmt(cond_expr, body, else_body, label, loc) ==
    [k |-> "IfStmt", cond_expr |-> cond_expr, body |-> body,
     else_body |-> else_body, label |-> label, symref |-> None, loc |-> loc]

IterStmt(init_expr, cond_expr, inc_expr, body, else_body, label, loc) ==
    [k |-> "IterStmt", init_expr |-> init_expr, cond_expr |-> cond_expr,
     inc_expr |-> inc_expr, body |-> body, else_body |-> else_body,
     label |-> label, symref |-> None, loc |-> loc]

NameExpr(name, loc) ==
    [k |-> "NameExpr", name |-> name, symref |-> None, loc |-> loc]

IntExpr(type, value, loc) ==
    [k |-> "IntExpr", type |-> type, value |-> value, symref |-> None,
     loc |-> loc]

CastExpr(expr, cast_type, signed, loc) ==
    [k |-> "CastExpr", expr |-> expr, cast_type |-> cast_type,
     signed |-> signed, symref |-> None, loc |-> loc]

\* op is the class name of the operator node (Add, Sub, Eq, ...); operator
\* nodes have no fields and no visitor.
BinaryExpr(left, op, right, loc) ==
    [k |-> "BinaryExpr", left |-> left, op |-> op, right |-> right,
     symref |-> None, loc |-> loc]

BinaryCondExpr(left, op, right, loc) ==
    [k |-> "BinaryCondExpr", left |-> left, op |-> op, right |-> right,
     symref |-> None, loc |-> loc]

\* op is the class name of the operator of an augmented assignment, ""
\* for None.
AssignExpr(lhs, rhs, op, loc) ==
    [k |-> "AssignExpr", lhs |-> lhs, rhs |-> rhs, op |-> op,
     symref |-> None, loc |-> loc]

\* type is "str", "array" or "struct"; value is the list of the bytes of a
\* string or of the expressions of an array.
ComplexExpr(type, value, loc) ==
    [k |-> "ComplexExpr", type |-> type, value |-> value, symref |-> None,
     loc |-> loc]

\* A Python int that is not a node.
PyInt(v) == [k |-> "int", v |-> v]

\* The object a symref or a symbol-table _node points to, for the nodes
\* that are referred to: its class and where it is in the source.
NodeRef(node) == [k |-> node.k, loc |-> node.loc]

\* isinstance(v, ast.AST)
IsAST(v) == v.k \notin {"None", "str", "int", "bool"}

\* The attributes and fields of a class that can hold child nodes, in the
\* order iter_child_nodes yields them: _attribs first, then _fields.
ChildFields(k) ==
    CASE k = "Module" -> <<"decls">>
      [] k \in {"VarDecl", "ConstDecl"} -> <<"type", "value">>
      [] k = "FuncDecl" -> <<"type", "body">>
      [] k = "TypeDecl" -> <<"type">>
      [] k = "ArrayType" -> <<"inner_type", "size">>
      [] k = "FuncType" -> <<"return_type", "param_types">>
      [] k \in {"StructType", "UnionType"} -> <<"members">>
      [] k = "MemberData" -> <<"type">>
      [] k = "DefStmt" -> <<"decl">>
      [] k = "CompoundStmt" -> <<"stmts">>
      [] k = "ExprStmt" -> <<"expr">>
      [] k = "ReturnStmt" -> <<"ret_expr">>
      [] k = "IfStmt" -> <<"cond_expr", "body", "else_body">>
      [] k = "IterStmt" ->
            <<"init_expr", "cond_expr", "inc_expr", "body", "else_body">>
      [] k = "IntExpr" -> <<"type">>
      [] k = "CastExpr" -> <<"expr", "cast_type">>
      [] k = "AssignExpr" -> <<"lhs", "rhs">>
      [] k = "ComplexExpr" -> <<"value">>
      [] k \in {"BinaryExpr", "BinaryCondExpr"} -> <<"left", "right">>
      [] k \in {"SzexprExpr", "AddrOfExpr", "UnaryExpr", "UnaryCondExpr"} ->
            <<"expr">>
      [] k = "SztypeExpr" -> <<"type">>
      [] k = "CallExpr" -> <<"func_expr", "args">>
      [] k = "IndexExpr" -> <<"array_expr", "index_expr">>
      [] k = "AccessExpr" -> <<"record_expr">>
      [] k = "DerefExpr" -> <<"pointer_expr">>
      [] k = "TernaryExpr" -> <<"cond_expr", "true_expr", "false_expr">>
      [] k = "CommaExpr" -> <<"exprs">>
      [] OTHER -> <<>>

\* The fields whose value is a list.
ListFields ==
    {"decls", "param_types", "members", "stmts", "args", "exprs"}

\* The value of a ComplexExpr is a list too; the bytes of a string are not
\* nodes.
IsListField(node, f) ==
    f \in ListFields \/ (node.k = "ComplexExpr" /\ f = "value")

NodesOfList(node, f) ==
    IF node.k = "ComplexExpr" /\ node.type # "array" THEN <<>>
    ELSE [j \in 1..Len(node[f]) |-> <<f, j>>]

\* The child nodes of a node as <<field, index>>, index 0 for a field that
\* holds the node itself.
RECURSIVE FieldSlots(_, _, _)
FieldSlots(node, fs, i) ==
    IF i > Len(fs) THEN <<>>
    ELSE LET f == fs[i]
             here == IF IsListField(node, f) THEN NodesOfList(node, f)
                     ELSE IF IsAST(node[f]) THEN << <<f, 0>> >> ELSE <<>>
         IN here \o FieldSlots(node, fs, i + 1)

iter_child_nodes(node) == FieldSlots(node, ChildFields(node.k), 1)

GetChild(node, slot) ==
    IF slot[2] = 0 THEN node[slot[1]] ELSE node[slot[1]][slot[2]]

SetChild(node, slot, child) ==
    IF slot[2] = 0 THEN [node EXCEPT ![slot[1]] = child]
    ELSE [node EXCEPT ![slot[1]][slot[2]] = child]

(***************************************************************************)
(* nssymtab.py: scopes and symbols                                         *)
(***************************************************************************)
\* Every identifier the modelled programs use.
TypeIdents == {"T", "U", "X"}

NameIdents == {"f", "g", "x", "y", "t", "p", "q", "r", "c", "a"}

LabelIdents == {"L"}

Idents == TypeIdents \cup NameIdents \cup LabelIdents

\* An empty namespace dict; 0 stands for "no entry".
EmptyDict == [n \in Idents |-> 0]

\* SymbolTable.__init__; type is what get_type() of the subclass returns,
\* node the Module, FuncDecl or CompoundStmt the scope was created for.
SymbolTable(type, node, parent) ==
    [type |-> type, node |-> node, parent |-> parent,
     names |-> EmptyDict, types |-> EmptyDict, labels |-> EmptyDict]

ModuleTable(node, parent) == SymbolTable("module", node, parent)

FuncTable(node, parent) == SymbolTable("func", node, parent)

BlockTable(node, parent) == SymbolTable("block", node, parent)

\* SymbolTable.is_global
is_global(T, scope) == T[scope].type = "module"

\* A reference to the symbol object syms[id].
SymObj(cls, id) == [k |-> cls, id |-> id]

\* The symbol objects. ns is the namespace _bind_symbol files the class
\* under; the fields a class does not have are None or FALSE.
Symbol(cls, ns, name, type, static, inline, functable, node) ==
    [cls |-> cls, ns |-> ns, name |-> name, type |-> type,
     is_static |-> static, is_inline |-> inline, functable |-> functable,
     node |-> node, table |-> 0, isreferenced |-> FALSE]

VarSymbol(name, type, static, node) ==
    Symbol("VarSymbol", "names", name, type, static, FALSE, 0, node)

ConstSymbol(name, type, static, node) ==
    Symbol("ConstSymbol", "names", name, type, static, FALSE, 0, node)

ParamSymbol(name, type) ==
    Symbol("ParamSymbol", "names", name, type, FALSE, FALSE, 0, None)

FuncSymbol(name, type, static, inline, functable) ==
    Symbol("FuncSymbol", "names", name, type, static, inline, functable, None)

TypeSymbol(name, type) ==
    Symbol("TypeSymbol", "types", name, type, FALSE, FALSE, 0, None)

\* SymbolTable._get_symbol: the local dict, then the ancestry.
RECURSIVE get_symbol(_, _, _, _, _)
get_symbol(T, scope, ns, name, localonly) ==
    IF T[scope][ns][name] # 0 \/ localonly THEN T[scope][ns][name]
    ELSE IF T[scope].parent # 0
         THEN get_symbol(T, T[scope].parent, ns, name, FALSE)
         ELSE 0

get_namesym(T, scope, name, localonly) ==
    get_symbol(T, scope, "names", name, localonly)

get_typesym(T, scope, name, localonly) ==
    get_symbol(T, scope, "types", name, localonly)

get_labelsym(T, scope, name, localonly) ==
    get_symbol(T, scope, "labels", name, localonly)

\* SymbolTable._bind_symbol on the pair st = [tabs, syms]: the symbol
\* object sym is created as syms[Len(syms) + 1] and bound under its name in
\* scope; without overwrite an existing entry is kept and False returned.
bind_symbol(st, scope, sym, overwrite) ==
    LET id == Len(st.syms) + 1 IN
    IF ~overwrite /\ st.tabs[scope][sym.ns][sym.name] # 0
    THEN [tabs |-> st.tabs, syms |-> Append(st.syms, sym), ok |-> FALSE]
    ELSE [tabs |-> [st.tabs EXCEPT ![scope][sym.ns][sym.name] = id],
          syms |-> Append(st.syms, [sym EXCEPT !.table = scope]),
          ok   |-> TRUE]

(***************************************************************************)
(* nsstbuilder.py: CompareTypesEq, ExpandType, CompareTypesEquiv           *)
(***************************************************************************)
RECURSIVE CompareTypesEq(_, _)
CompareTypesEq(type1, type2) ==
    IF ~IsType(type1) \/ type1.k # type2.k THEN FALSE
    ELSE IF type1.k = "VoidType" THEN TRUE
    ELSE IF type1.k = "RefType"
         THEN type1.ref_type_name = type2.ref_type_name
    ELSE IF type1.k = "IntType" THEN type1.type = type2.type
    ELSE IF type1.k = "ArrayType"
         THEN CompareTypesEq(type1.inner_type, type2.inner_type)
    ELSE IF type1.k = "FuncType"
         THEN /\ type1.is_variadic = type2.is_variadic
              /\ CompareTypesEq(type1.return_type, type2.return_type)
              /\ Len(type1.param_types) = Len(type2.param_types)
              /\ \A i \in 1..Len(type1.param_types) :
                    CompareTypesEq(type1.param_types[i], type2.param_types[i])
    ELSE IF type1.k \in {"StructType", "UnionType"}
         THEN /\ Len(type1.members) = Len(type2.members)
              /\ \A i \in 1..Len(type1.members) :
                    /\ type1.members[i].name = type2.members[i].name
                    /\ type1.members[i].bits = type2.members[i].bits
                    /\ CompareTypesEq(type1.members[i].type,
                                      type2.members[i].type)
    ELSE FALSE

\* The while loop of ExpandType: a RefType is replaced by what get_typesym
\* returns, which is the TypeSymbol object or None, and neither is a
\* RefType.
SymOrNone(cls, id) == IF id = 0 THEN None ELSE SymObj(cls, id)

RECURSIVE ExpandLoop(_, _, _)
ExpandLoop(T, scope, type) ==
    IF type.k = "RefType"
    THEN ExpandLoop(T, scope,
                    SymOrNone("TypeSymbol",
                              get_typesym(T, scope, type.ref_type_name, FALSE)))
    ELSE type

ExpandType(T, scope, type) ==
    IF ~IsType(type) THEN None ELSE ExpandLoop(T, scope, type)

\* CompareTypesEquiv returns True or False or raises: its recursive calls
\* for function types pass two arguments where three are required, and
\* memEq is called by map with one tuple where two arguments are required.
RECURSIVE CompareTypesEquiv(_, _, _, _)

\* CompareTypesEquiv after type1 and type2 have been expanded.
CompareExpanded(T, scope, type1, type2) ==
    IF type1.k = "None" \/ type2.k = "None" \/ type1.k # type2.k
    THEN "False"
    ELSE IF type1.k = "ArrayType"
         THEN CompareTypesEquiv(T, scope, type1.inner_type, type2.inner_type)
    ELSE IF type1.k = "FuncType"
         THEN IF type1.is_variadic # type2.is_variadic
              THEN "False" ELSE "TypeError"
    ELSE IF type1.k \in {"StructType", "UnionType"}
         THEN IF Len(type1.members) # Len(type2.members) THEN "False"
              ELSE IF Len(type1.members) = 0 THEN "True"
              ELSE "TypeError"
    ELSE IF CompareTypesEq(type1, type2) THEN "True" ELSE "False"

CompareTypesEquiv(T, scope, t1, t2) ==
    IF ~IsType(t1) \/ ~IsType(t2) THEN "False"
    ELSE CompareExpanded(T, scope, ExpandType(T, scope, t1),
                         ExpandType(T, scope, t2))

(***************************************************************************)
(* nsstbuilder.py: __STNodeVisitor                                         *)
(*                                                                         *)
(* The visitor state b is [tabs, syms, curtab, globalpass, success, exc,   *)
(* log]; exc is the class of the exception being propagated, "" for none.  *)
(* Every visit returns [st |-> the state after it, node |-> the node after *)
(* it]; once exc is set nothing more is done.                              *)
(***************************************************************************)
L_INVALID_SYM_REDECL == "ST10"

L_TYPE_MISMATCH == "ST11"

L_FUNC_REDECL_MISMATCH == "ST12"

L_FUNC_PARAM_TWICE == "ST13"

L_VAR_REDECL_MISMATCH == "ST14"

L_CANNOT_REDEFINE == "ST15"

L_USE_BEFORE_DECL == "ST20"

\* Logger.fatal / Logger.warn: one diagnostic.
Diag(level, code, loc) == [level |-> level, code |-> code, loc |-> loc]

\* __STNodeVisitor.__init__
NewBuilder ==
    [tabs |-> <<>>, syms |-> <<>>, curtab |-> 0, globalpass |-> TRUE,
     success |-> TRUE, exc |-> "", log |-> <<>>]

\* __STNodeVisitor._fatal
BFatal(b, code, node) ==
    [st   |-> [b EXCEPT !.success = FALSE, !.exc = "Exception",
                        !.log = Append(@, Diag("fatal", code, node.loc))],
     node |-> node]

\* curtab._bind_symbol(name, symbol, overwrite) from the visitor
BBind(b, sym, overwrite) ==
    LET r == bind_symbol(b, b.curtab, sym, overwrite) IN
    [b EXCEPT !.tabs = r.tabs, !.syms = r.syms]

\* The index the next created symbol object gets.
NewSym(b) == Len(b.syms) + 1

\* namesym._reference()
reference(b, id) == [b EXCEPT !.syms[id].isreferenced = TRUE]

RECURSIVE BVisit(_, _)

\* NodeVisitor.generic_visit from child i on.
RECURSIVE BVisitChildren(_, _, _, _)
BVisitChildren(b, node, slots, i) ==
    IF i > Len(slots) \/ b.exc # "" THEN [st |-> b, node |-> node]
    ELSE LET r == BVisit(b, GetChild(node, slots[i])) IN
         BVisitChildren(r.st, SetChild(node, slots[i], r.node), slots, i + 1)

Bgeneric_visit(b, node) == BVisitChildren(b, node, iter_child_nodes(node), 1)

\* The parameter loop of visit_FuncDecl.
RECURSIVE BindParams(_, _, _)
BindParams(b, fdecl, i) ==
    IF \/ i > Len(fdecl.param_names)
       \/ i > Len(fdecl.type.param_types)
       \/ b.exc # ""
    THEN b
    ELSE LET pname == fdecl.param_names[i] IN
         IF get_namesym(b.tabs, b.curtab, pname, TRUE) # 0
         THEN BFatal(b, L_FUNC_PARAM_TWICE, fdecl).st
         ELSE BindParams(
                BBind(b, ParamSymbol(pname, fdecl.type.param_types[i]), FALSE),
                fdecl, i + 1)

\* The compatibility checks of visit_FuncDecl against the symbol the name
\* already has in this scope: the code of the fatal raised, "" for none.
FuncRedeclCode(b, funcsym, fdecl) ==
    LET sym == b.syms[funcsym] IN
    IF sym.cls # "FuncSymbol" THEN L_INVALID_SYM_REDECL
    ELSE IF sym.is_static # fdecl.is_static THEN L_FUNC_REDECL_MISMATCH
    ELSE IF sym.is_inline # fdecl.is_inline THEN L_FUNC_REDECL_MISMATCH
    ELSE IF ~CompareTypesEq(sym.type, fdecl.type) THEN L_TYPE_MISMATCH
    ELSE IF /\ fdecl.body.k # "None"
            /\ sym.functable # 0
            /\ b.tabs[sym.functable].node.body
         THEN L_CANNOT_REDEFINE
    ELSE ""

Bvisit_FuncDecl(b, fdecl) ==
    LET funcsym == get_namesym(b.tabs, b.curtab, fdecl.name, TRUE)
        code == IF funcsym # 0 THEN FuncRedeclCode(b, funcsym, fdecl) ELSE ""
    IN
    IF code # "" THEN BFatal(b, code, fdecl)
    ELSE IF funcsym # 0 /\ fdecl.body.k = "None"
         THEN [st |-> b, node |-> fdecl]
    ELSE IF b.globalpass \/ fdecl.body.k = "None"
         THEN \* declared: no function symbol table
              [st |-> BBind(b, FuncSymbol(fdecl.name, fdecl.type,
                                fdecl.is_static, fdecl.is_inline, 0), FALSE),
               node |-> [fdecl EXCEPT
                            !.symref = SymObj("FuncSymbol", NewSym(b))]]
    ELSE \* defined: a function symbol table with the parameters
         LET functable == Len(b.tabs) + 1
             b1 == [b EXCEPT !.tabs = Append(@,
                        FuncTable([k |-> "FuncDecl", loc |-> fdecl.loc,
                                   body |-> TRUE], b.curtab))]
             b2 == BBind(b1, FuncSymbol(fdecl.name, fdecl.type,
                            fdecl.is_static, fdecl.is_inline, functable), TRUE)
             n2 == [fdecl EXCEPT !.symref = SymObj("FuncSymbol", NewSym(b))]
             b3 == BindParams([b2 EXCEPT !.curtab = functable], fdecl, 1)
             r  == Bgeneric_visit(b3, n2)
         IN
         IF b3.exc # "" THEN [st |-> b3, node |-> n2]
         ELSE IF r.st.exc # "" THEN r
         ELSE [st   |-> [r.st EXCEPT !.curtab = r.st.tabs[@].parent],
               node |-> r.node]

Bvisit_CompoundStmt(b, cstmt) ==
    LET blocktable == Len(b.tabs) + 1
        b1 == [b EXCEPT !.tabs = Append(@, BlockTable(NodeRef(cstmt),
                                                      b.curtab)),
                        !.curtab = blocktable]
        n1 == [cstmt EXCEPT !.symref = [k |-> "BlockTable",
                                        id |-> blocktable]]
        r  == Bgeneric_visit(b1, n1)
    IN
    IF r.st.exc # "" THEN r
    ELSE [st   |-> [r.st EXCEPT !.curtab = r.st.tabs[@].parent],
          node |-> r.node]

Bvisit_TypeDecl(b, tdecl) ==
    IF ~b.globalpass /\ is_global(b.tabs, b.curtab)
    THEN [st |-> b, node |-> tdecl]
    ELSE IF get_typesym(b.tabs, b.curtab, tdecl.name, TRUE) # 0
         THEN BFatal(b, L_CANNOT_REDEFINE, tdecl)
    ELSE Bgeneric_visit(
            BBind(b, TypeSymbol(tdecl.name, tdecl.type), FALSE),
            [tdecl EXCEPT !.symref = SymObj("TypeSymbol", NewSym(b))])

\* The compatibility checks of visit_VarDecl.
VarRedeclCode(b, varsym, vdecl) ==
    LET sym == b.syms[varsym] IN
    IF ~is_global(b.tabs, b.curtab) THEN L_CANNOT_REDEFINE
    ELSE IF sym.cls # "VarSymbol" THEN L_INVALID_SYM_REDECL
    ELSE IF sym.is_static # vdecl.is_static THEN L_VAR_REDECL_MISMATCH
    ELSE IF ~CompareTypesEq(sym.type, vdecl.type) THEN L_TYPE_MISMATCH
    ELSE IF vdecl.value.k # "None" /\ sym.node.value THEN L_CANNOT_REDEFINE
    ELSE ""

Bvisit_VarDecl(b, vdecl) ==
    LET varsym == get_namesym(b.tabs, b.curtab, vdecl.name, TRUE)
        code == IF varsym # 0 THEN VarRedeclCode(b, varsym, vdecl) ELSE ""
    IN
    IF ~b.globalpass /\ is_global(b.tabs, b.curtab)
    THEN [st |-> b, node |-> vdecl]
    ELSE IF code # "" THEN BFatal(b, code, vdecl)
    ELSE IF varsym # 0 /\ vdecl.value.k = "None"
         THEN [st |-> b, node |-> vdecl]
    ELSE Bgeneric_visit(
            BBind(b, VarSymbol(vdecl.name, vdecl.type, vdecl.is_static,
                        [k |-> "VarDecl", loc |-> vdecl.loc,
                         value |-> vdecl.value.k # "None"]), TRUE),
            [vdecl EXCEPT !.symref = SymObj("VarSymbol", NewSym(b))])

Bvisit_ConstDecl(b, cdecl) ==
    IF ~b.globalpass THEN [st |-> b, node |-> cdecl]
    ELSE IF get_namesym(b.tabs, b.curtab, cdecl.name, TRUE) # 0
         THEN BFatal(b, L_CANNOT_REDEFINE, cdecl)
    ELSE Bgeneric_visit(
            BBind(b, ConstSymbol(cdecl.name, cdecl.type, cdecl.is_static,
                        [k |-> "ConstDecl", loc |-> cdecl.loc,
                         value |-> cdecl.value.k # "None"]), FALSE),
            [cdecl EXCEPT !.symref = SymObj("ConstSymbol", NewSym(b))])

Bvisit_NameExpr(b, nexpr) ==
    LET namesym == get_namesym(b.tabs, b.curtab, nexpr.name, FALSE) IN
    IF namesym = 0 THEN BFatal(b, L_USE_BEFORE_DECL, nexpr)
    ELSE [st   |-> reference(b, namesym),
          node |-> [nexpr EXCEPT
                        !.symref = SymObj(b.syms[namesym].cls, namesym)]]

\* NodeVisitor.visit: visit_<class name>, else generic_visit.
BVisit(b, node) ==
    IF b.exc # "" THEN [st |-> b, node |-> node]
    ELSE CASE node.k = "FuncDecl" -> Bvisit_FuncDecl(b, node)
           [] node.k = "CompoundStmt" -> Bvisit_CompoundStmt(b, node)
           [] node.k = "TypeDecl" -> Bvisit_TypeDecl(b, node)
           [] node.k = "VarDecl" -> Bvisit_VarDecl(b, node)
           [] node.k = "ConstDecl" -> Bvisit_ConstDecl(b, node)
           [] node.k = "NameExpr" -> Bvisit_NameExpr(b, node)
           [] OTHER -> Bgeneric_visit(b, node)

(***************************************************************************)
(* nschk.py: GetExpressionType, CanCastTypes, ExprPropertyChecker          *)
(***************************************************************************)
\* A call that raises instead of returning.
Raise(cls) == [k |-> "raise", exc |-> cls]

\* isinstance(t, (ast.IntType, ast.ArrayType, ast.FuncType))
IntArrayFunc == {"IntType", "ArrayType", "FuncType"}

\* Types carry no span in this model, and neither does a node the Checker
\* makes without one: a diagnostic about it cites no position.
NoLoc == <<>>

\* ExpandType applied to what a call returned.
ExpandResult(T, scope, v) ==
    IF v.k = "raise" THEN v ELSE ExpandType(T, scope, v)

\* The type of an expression. A name is looked up by its text from the
\* scope given; the type of an IntExpr is whatever the parser stored in
\* its type field.
RECURSIVE GetExpressionType(_, _, _, _)
GetExpressionType(T, S, scope, expr) ==
    CASE expr.k = "NameExpr" ->
            IF get_namesym(T, scope, expr.name, FALSE) = 0
            THEN Raise("AttributeError")
            ELSE ExpandType(T, scope,
                            S[get_namesym(T, scope, expr.name, FALSE)].type)
      [] expr.k = "IntExpr" -> expr.type
      [] expr.k = "CastExpr" -> ExpandType(T, scope, expr.cast_type)
      [] expr.k = "AccessExpr" ->
            LET Member(record) ==
                    IF record.k = "raise" THEN record
                    ELSE IF record.k \notin {"StructType", "UnionType"}
                         THEN Raise("AttributeError")
                    ELSE IF \E i \in 1..Len(record.members) :
                                record.members[i].name = expr.member_name
                         THEN ExpandType(T, scope,
                                record.members[
                                    CHOOSE i \in 1..Len(record.members) :
                                        /\ record.members[i].name
                                                = expr.member_name
                                        /\ \A j \in 1..(i - 1) :
                                                record.members[j].name
                                                    # expr.member_name].type)
                    ELSE Raise("Exception")
            IN Member(ExpandResult(T, scope,
                        GetExpressionType(T, S, scope, expr.record_expr)))
      [] expr.k = "BinaryExpr" ->
            ExpandResult(T, scope, GetExpressionType(T, S, scope, expr.left))
      [] expr.k = "BinaryCondExpr" -> IntType(FALSE, "int")
      [] expr.k = "AssignExpr" ->
            ExpandResult(T, scope, GetExpressionType(T, S, scope, expr.lhs))
      [] expr.k = "ComplexExpr" /\ expr.type \in {"str", "array"} ->
            LET Array(inner) ==
                    IF inner.k = "raise" THEN inner
                    ELSE ArrayType(FALSE, inner,
                                   IntExpr(IntType(FALSE, "long"),
                                           Len(expr.value), NoLoc))
            IN Array(ExpandResult(T, scope,
                        GetExpressionType(T, S, scope, expr.value[1])))
      [] OTHER -> Raise("Exception")

\* CanCastTypes: "" for None (the cast is allowed), else the error string;
\* "TypeError" when CompareTypesEquiv raises.
CanCastTypes(T, scope, from_type, to_type) ==
    IF to_type.k \in IntArrayFunc
    THEN IF from_type.k \notin IntArrayFunc
         THEN "integers, arrays, pointers, and functions can only be casted to each other."
         ELSE ""
    ELSE IF from_type.k # to_type.k
         THEN "inner type and cast type are not of the same type."
    ELSE CASE CompareTypesEquiv(T, scope, from_type, to_type) = "True" -> ""
           [] CompareTypesEquiv(T, scope, from_type, to_type) = "False" ->
                "inner type and cast type are not equivalent."
           [] OTHER -> "TypeError"

\* ExprPropertyChecker.visit: [ok, const, lvalue]; ok is false when
\* generic_visit returned False instead of an ExprProperty.
ExprProperty(const, lvalue) == [ok |-> TRUE, const |-> const, lvalue |-> lvalue]

\* No ExprProperty comes back: generic_visit returned False for a class
\* that is not in _mapping, or the visit raised AttributeError.
NoProperty == [ok |-> FALSE, const |-> FALSE, lvalue |-> FALSE]

\* visit_NameExpr of ExprPropertyChecker on the symbol the name has.
SymProperty(S, sym) ==
    ExprProperty(sym # 0 /\ S[sym].cls = "ConstSymbol",
                 sym # 0 /\ S[sym].cls = "VarSymbol")

\* The properties of a binary expression from those of its operands.
BinaryProperty(l, r) ==
    IF ~l.ok \/ (l.const /\ ~r.ok)
    THEN NoProperty
    ELSE ExprProperty(l.const /\ r.const, FALSE)

\* The properties of a unary expression from those of its operand.
UnaryProperty(r) ==
    IF ~r.ok THEN NoProperty ELSE ExprProperty(r.const, FALSE)

\* visit_CommaExpr from the properties of the expressions, in order: every
\* one is asked is_const(), the last one is_lvalue(); exprs[-1] of an empty
\* list raises.
CommaProperty(props) ==
    IF props = <<>> \/ \E i \in 1..Len(props) : ~props[i].ok THEN NoProperty
    ELSE ExprProperty(\A i \in 1..Len(props) : props[i].const,
                      props[Len(props)].lvalue)

\* ExprPropertyChecker(scope).visit(node): _mapping for the classes
\* generic_visit knows, the visit_ methods for the others. visit_TernaryExpr
\* calls is_value(), which ExprProperty does not have.
RECURSIVE ExprPropertyChecker(_, _, _, _)
ExprPropertyChecker(T, S, scope, node) ==
    CASE node.k \in {"IntExpr", "SzexprExpr", "SztypeExpr"} ->
            ExprProperty(TRUE, FALSE)
      [] node.k \in {"StrExpr", "CallExpr", "AddrOfExpr", "ComplexExpr"} ->
            ExprProperty(FALSE, FALSE)
      [] node.k \in {"IndexExpr", "AccessExpr", "DerefExpr", "AssignExpr"} ->
            ExprProperty(FALSE, TRUE)
      [] node.k = "NameExpr" ->
            SymProperty(S, get_namesym(T, scope, node.name, FALSE))
      [] node.k = "CastExpr" -> ExprPropertyChecker(T, S, scope, node.expr)
      [] node.k \in {"UnaryExpr", "UnaryCondExpr"} ->
            UnaryProperty(ExprPropertyChecker(T, S, scope, node.expr))
      [] node.k \in {"BinaryExpr", "BinaryCondExpr"} ->
            BinaryProperty(ExprPropertyChecker(T, S, scope, node.left),
                           ExprPropertyChecker(T, S, scope, node.right))
      [] node.k = "TernaryExpr" -> NoProperty
      [] node.k = "CommaExpr" ->
            CommaProperty([i \in 1..Len(node.exprs) |->
                              ExprPropertyChecker(T, S, scope, node.exprs[i])])
      [] OTHER -> NoProperty

(***************************************************************************)
(* internals/nstypes.py is not part of the sources: CFG.INT_SIZES is taken *)
(* from the configuration section of the specification, widths in words    *)
(* growing from int to long to quad.                                       *)
(***************************************************************************)
INT_SIZES(type) ==
    CASE type = "int" -> 1
      [] type = "long" -> 2
      [] type = "quad" -> 4

(***************************************************************************)
(* nschk.py: Checker                                                       *)
(*                                                                         *)
(* The visitor state c is [tabs, syms, scope, success, typedef_check,      *)
(* typenames, ret_type, last_if, last_iter, exc, log], and the history     *)
(* visited of the nodes it was called on.                                  *)
(***************************************************************************)
C_TYPENOTEXIST == "C10"

C_CIRCTYPEDEF == "C20"

C_INVALIDBITS == "C30"

C_VOIDTYPE_DISALLOWED == "C40"

C_TYPE_MISMATCH == "C50"

C_MISSING_MEMBER == "C60"

C_LABEL_NOT_EXIST == "C70"

C_LABEL_WRONG_TYPE == "C80"

C_NOT_IN_IF_ITER == "C90"

\* Checker.__init__ on the heap the builder left; the_tree is what
\* GetSymbolTable() returns.
NewChecker(T, S, tree, diags) ==
    [tabs |-> T, syms |-> S, scope |-> tree, success |-> TRUE,
     typedef_check |-> TRUE, typenames |-> <<>>, ret_type |-> None,
     last_if |-> None, last_iter |-> None, exc |-> "", log |-> diags,
     visited |-> {}]

\* Checker._fatal, the position cited being loc
CFatalAt(c, code, msg, loc, node) ==
    [st   |-> [c EXCEPT !.success = FALSE, !.exc = "Exception",
                        !.log = Append(@, [level |-> "fatal", code |-> code,
                                           loc |-> loc, msg |-> msg])],
     node |-> node]

CFatal(c, code, msg, node) == CFatalAt(c, code, msg, node.loc, node)

\* An exception that is not a fatal diagnostic leaves success as it is.
CRaise(c, cls, node) == [st |-> [c EXCEPT !.exc = cls], node |-> node]

\* logger.warn
CWarn(c, msg, node) ==
    [c EXCEPT !.log = Append(@, [level |-> "warn", code |-> "",
                                 loc |-> node.loc, msg |-> msg])]

CDone(c, node) == [st |-> c, node |-> node]

\* A history of the visit: the nodes visit() was called on, each with the
\* scope the Checker had at that call. It is read by no visitor.
Seen(c, node) ==
    IF ~IsAST(node) THEN c
    ELSE [c EXCEPT !.visited =
            @ \cup {[node  |-> [k   |-> node.k,
                                 loc |-> IF "loc" \in DOMAIN node
                                         THEN node.loc ELSE NoLoc],
                      scope |-> c.scope]}]

RECURSIVE CVisit(_, _)

RECURSIVE CVisitChildren(_, _, _, _)
CVisitChildren(c, node, slots, i) ==
    IF i > Len(slots) \/ c.exc # "" THEN CDone(c, node)
    ELSE LET Visited(r) ==
                 CVisitChildren(r.st, SetChild(node, slots[i], r.node),
                                slots, i + 1)
         IN Visited(CVisit(c, GetChild(node, slots[i])))

Cgeneric_visit(c, node) == CVisitChildren(c, node, iter_child_nodes(node), 1)

\* The common part of visit_IfStmt and visit_IterStmt; field is last_if or
\* last_iter.
CheckCondStmt(c, istmt, field) ==
    LET Typed(c1, node, cond_expr_type) ==
            IF cond_expr_type.k = "raise"
            THEN CRaise(c1, cond_expr_type.exc, node)
            ELSE IF cond_expr_type.k \notin IntArrayFunc
                 THEN CFatal(c1, C_TYPE_MISMATCH, "condition", node)
            ELSE CDone(c1, node)
        Restored(c1, node) ==
            Typed(c1, node,
                  GetExpressionType(c1.tabs, c1.syms, c1.scope, node.cond_expr))
        Visited(r) ==
            IF r.st.exc # "" THEN r
            ELSE Restored([r.st EXCEPT ![field] = c[field]], r.node)
    IN
    IF c.typedef_check THEN CDone(c, istmt)
    ELSE Visited(Cgeneric_visit([c EXCEPT ![field] = NodeRef(istmt)], istmt))

Cvisit_IfStmt(c, istmt) == CheckCondStmt(c, istmt, "last_if")

Cvisit_IterStmt(c, istmt) == CheckCondStmt(c, istmt, "last_iter")

\* A LabelSymbol has no get_node method: were a label ever found, the call
\* labelsym.get_node() would raise AttributeError.
Cvisit_ContinueStmt(c, cstmt) ==
    IF c.typedef_check THEN CDone(c, cstmt)
    ELSE IF cstmt.label # ""
         THEN IF get_labelsym(c.tabs, c.scope, cstmt.label, FALSE) = 0
              THEN CFatal(c, C_LABEL_NOT_EXIST, cstmt.label, cstmt)
              ELSE CRaise(c, "AttributeError", cstmt)
    ELSE IF c.last_iter.k = "None"
         THEN CFatal(c, C_NOT_IN_IF_ITER, "ContinueStmt", cstmt)
    ELSE CDone(c, [cstmt EXCEPT !.symref = c.last_iter])

Cvisit_BreakStmt(c, bstmt) ==
    LET t == IF bstmt.breakif THEN "IfStmt" ELSE "IterStmt"
        last_check == IF bstmt.breakif THEN c.last_if ELSE c.last_iter
    IN
    IF c.typedef_check THEN CDone(c, bstmt)
    ELSE IF bstmt.label # ""
         THEN IF get_labelsym(c.tabs, c.scope, bstmt.label, FALSE) = 0
              THEN CFatal(c, C_LABEL_NOT_EXIST, bstmt.label, bstmt)
              ELSE CRaise(c, "AttributeError", bstmt)
    ELSE IF last_check.k = "None" \/ last_check.k # t
         THEN CFatal(c, C_NOT_IN_IF_ITER, t, bstmt)
    ELSE CDone(c, [bstmt EXCEPT !.symref = last_check])

Cvisit_ReturnStmt(c, rstmt) ==
    LET Compared(c1, node, e) ==
            IF e = "TypeError" THEN CRaise(c1, e, node)
            ELSE IF e = "False"
                 THEN CFatal(c1, C_TYPE_MISMATCH, "return value", node)
            ELSE CDone(c1, node)
        Typed(c1, node, ret_expr_type) ==
            IF ret_expr_type.k = "raise"
            THEN CRaise(c1, ret_expr_type.exc, node)
            ELSE Compared(c1, node,
                          CompareTypesEquiv(c1.tabs, c1.scope, c1.ret_type,
                                            ret_expr_type))
        Visited(r) ==
            IF r.st.exc # "" THEN r
            ELSE IF r.st.ret_type.k = "VoidType"
                 THEN IF r.node.ret_expr.k # "None"
                      THEN CFatal(r.st, C_TYPE_MISMATCH, "returns expression",
                                  r.node)
                      ELSE r
            ELSE IF r.node.ret_expr.k = "None"
                 THEN CFatal(r.st, C_TYPE_MISMATCH, "no expression", r.node)
            ELSE Typed(r.st, r.node,
                       GetExpressionType(r.st.tabs, r.st.syms, r.st.scope,
                                         r.node.ret_expr))
    IN
    IF c.typedef_check THEN CDone(c, rstmt)
    ELSE Visited(Cgeneric_visit(c, rstmt))

\* Checker.__check_Decl for the initialisers of the node classes above.
check_Decl(c, decl) ==
    LET Sized(decl_type) ==
            IF /\ decl.value.k = "ComplexExpr"
               /\ decl.value.type # "struct"
               /\ decl_type.size.k = "None"
               /\ decl.type.k = "ArrayType"
            THEN CDone(c, [decl EXCEPT !.type.size =
                                IntExpr(IntType(FALSE, "long"),
                                        Len(decl.value.value), NoLoc)])
            ELSE CDone(c, decl)
        Compared(e) ==
            IF e = "TypeError" THEN CRaise(c, e, decl)
            ELSE IF e = "False"
                 THEN CFatal(c, C_TYPE_MISMATCH, "declaration", decl)
            ELSE Sized(ExpandType(c.tabs, c.scope, decl.type))
        Typed(expr_type) ==
            IF expr_type.k = "raise" THEN CRaise(c, expr_type.exc, decl)
            ELSE Compared(CompareTypesEquiv(c.tabs, c.scope,
                              ExpandType(c.tabs, c.scope, decl.type),
                              expr_type))
    IN
    IF decl.value.k = "None" THEN CDone(c, decl)
    ELSE Typed(GetExpressionType(c.tabs, c.syms, c.scope, decl.value))

Cvisit_VarDecl(c, decl) ==
    LET Rechecked(c3, n3) ==
            IF c3.exc # "" THEN [st |-> c3, node |-> n3]
            ELSE check_Decl(c3, n3)
        Retyped(r2, r3) ==
            Rechecked(r3.st, [r2.node EXCEPT !.type = r3.node])
        Checked(r2) ==
            IF r2.st.exc # "" THEN r2
            ELSE Retyped(r2, CVisit(r2.st, r2.node.type))
        Visited(r1) ==
            IF r1.st.exc # "" THEN r1 ELSE Checked(check_Decl(r1.st, r1.node))
    IN
    IF c.typedef_check THEN CDone(c, decl)
    ELSE Visited(Cgeneric_visit(c, decl))

Cvisit_ConstDecl(c, decl) ==
    LET Props(c1, node, props) ==
            IF ~props.ok THEN CRaise(c1, "AttributeError", node)
            ELSE IF ~props.const
                 THEN CFatal(c1, C_TYPE_MISMATCH, "constant", node)
            ELSE check_Decl(c1, node)
        Visited(r) ==
            IF r.st.exc # "" THEN r
            ELSE IF ExpandType(r.st.tabs, r.st.scope, r.node.type).k # "IntType"
                 THEN CFatal(r.st, C_TYPE_MISMATCH, "integral", r.node)
            ELSE Props(r.st, r.node,
                       ExprPropertyChecker(r.st.tabs, r.st.syms, r.st.scope,
                                           r.node.value))
    IN
    IF c.typedef_check THEN CDone(c, decl)
    ELSE Visited(Cgeneric_visit(c, decl))

\* visit_AccessExpr: the type mismatch cites the span of the record
\* expression, the missing member the start of the AccessExpr.
Cvisit_AccessExpr(c, aexpr) ==
    LET Member(c1, node, record_expr_type) ==
            IF record_expr_type.k = "raise"
            THEN CRaise(c1, record_expr_type.exc, node)
            ELSE IF record_expr_type.k \notin {"StructType", "UnionType"}
                 THEN CFatalAt(c1, C_TYPE_MISMATCH,
                               "expected expression to be StructType or UnionType",
                               node.record_expr.loc, node)
            ELSE IF \E i \in 1..Len(record_expr_type.members) :
                        record_expr_type.members[i].name = node.member_name
                 THEN CDone(c1, node)
            ELSE CFatal(c1, C_MISSING_MEMBER, node.member_name, node)
        Visited(r) ==
            IF r.st.exc # "" THEN r
            ELSE Member(r.st, r.node,
                        GetExpressionType(r.st.tabs, r.st.syms, r.st.scope,
                                          r.node.record_expr))
    IN
    IF c.typedef_check THEN CDone(c, aexpr)
    ELSE Visited(Cgeneric_visit(c, aexpr))

Cvisit_CastExpr(c, cexpr) ==
    LET Castable(c1, node, can_cast) ==
            IF can_cast = "TypeError" THEN CRaise(c1, can_cast, node)
            ELSE IF can_cast # ""
                 THEN CFatal(c1, C_TYPE_MISMATCH, can_cast, node)
            ELSE CDone(c1, node)
        Typed(c1, node, inner_expr_type, cast_type) ==
            IF inner_expr_type.k = "raise"
            THEN CRaise(c1, inner_expr_type.exc, node)
            ELSE IF node.signed /\ cast_type.k # "IntType"
                 THEN CFatal(c1, C_TYPE_MISMATCH, "signed", node)
            ELSE Castable(c1, node,
                          CanCastTypes(c1.tabs, c1.scope, inner_expr_type,
                                       cast_type))
        Visited(r) ==
            IF r.st.exc # "" THEN r
            ELSE Typed(r.st, r.node,
                       GetExpressionType(r.st.tabs, r.st.syms, r.st.scope,
                                         r.node.expr),
                       ExpandType(r.st.tabs, r.st.scope, r.node.cast_type))
    IN
    IF c.typedef_check THEN CDone(c, cexpr)
    ELSE Visited(Cgeneric_visit(c, cexpr))

\* left_size = right_size = 2
DefaultSize == 2

\* The size an operand type has in the comparison of widths.
SizeOf(type) ==
    IF type.k = "IntType" THEN INT_SIZES(type.type) ELSE DefaultSize

\* A checker that converts the left operand to the type of the right one.
ConvertLeft(c, bexpr, left_expr_type, right_expr_type) ==
    IF CompareTypesEquiv(c.tabs, c.scope, left_expr_type, right_expr_type)
            = "False"
    THEN CDone(c, [bexpr EXCEPT !.left =
                        CastExpr(bexpr.left, right_expr_type, FALSE,
                                 bexpr.left.loc)])
    ELSE CDone(c, bexpr)

\* The width warning and the conversion of the right operand, shared by
\* visit_BinaryExpr and visit_BinaryCondExpr.
ConvertRight(c, bexpr, left_expr_type, right_expr_type) ==
    LET Compared(c1, e) ==
            IF e = "TypeError" THEN CRaise(c1, e, bexpr)
            ELSE IF e = "False"
                 THEN CDone(c1, [bexpr EXCEPT !.right =
                                    CastExpr(bexpr.right, left_expr_type,
                                             FALSE, bexpr.right.loc)])
            ELSE CDone(c1, bexpr)
        Warned(c1) ==
            Compared(c1, CompareTypesEquiv(c1.tabs, c1.scope, left_expr_type,
                                           right_expr_type))
        Sized(left_size, right_size) ==
            Warned(IF left_size < right_size
                   THEN CWarn(c, "downgrading right side of expression.", bexpr)
                   ELSE IF left_size > right_size
                        THEN CWarn(c, "upgrading right side of expression.",
                                   bexpr)
                   ELSE c)
    IN Sized(SizeOf(left_expr_type), SizeOf(right_expr_type))

\* visit_BinaryExpr (allowed = Add, Sub, cond FALSE) and
\* visit_BinaryCondExpr (allowed = LogicalAnd, LogicalOr, Eq, NotEq).
CheckBinary(c, bexpr, allowed, cond) ==
    LET Castable(c1, n, lt, rt, can_cast) ==
            IF can_cast = "TypeError" THEN CRaise(c1, can_cast, n)
            ELSE IF can_cast # "" THEN CFatal(c1, C_TYPE_MISMATCH, can_cast, n)
            ELSE IF /\ \/ lt.k \in {"ArrayType", "FuncType"}
                       \/ rt.k \in {"ArrayType", "FuncType"}
                    /\ n.op \notin allowed
                 THEN CFatal(c1, C_TYPE_MISMATCH, "operator", n)
            ELSE IF cond /\ lt.k \in {"LogicalAnd", "LogicalOr"}
                 THEN CDone(c1, n)
            ELSE ConvertRight(c1, n, lt, rt)
        Typed(c1, n, lt, rt) ==
            IF lt.k = "raise" THEN CRaise(c1, lt.exc, n)
            ELSE IF rt.k = "raise" THEN CRaise(c1, rt.exc, n)
            ELSE IF lt.k \notin IntArrayFunc
                 THEN CFatalAt(c1, C_TYPE_MISMATCH, "left operand",
                               n.left.loc, n)
            ELSE IF rt.k \notin IntArrayFunc
                 THEN CFatalAt(c1, C_TYPE_MISMATCH, "right operand",
                               n.right.loc, n)
            ELSE Castable(c1, n, lt, rt,
                          CanCastTypes(c1.tabs, c1.scope, rt, lt))
        Visited(r) ==
            IF r.st.exc # "" THEN r
            ELSE Typed(r.st, r.node,
                       GetExpressionType(r.st.tabs, r.st.syms, r.st.scope,
                                         r.node.left),
                       GetExpressionType(r.st.tabs, r.st.syms, r.st.scope,
                                         r.node.right))
    IN
    IF c.typedef_check THEN CDone(c, bexpr)
    ELSE Visited(Cgeneric_visit(c, bexpr))

Cvisit_BinaryExpr(c, bexpr) == CheckBinary(c, bexpr, {"Add", "Sub"}, FALSE)

Cvisit_BinaryCondExpr(c, bexpr) ==
    CheckBinary(c, bexpr, {"LogicalAnd", "LogicalOr", "Eq", "NotEq"}, TRUE)

Cvisit_AssignExpr(c, aexpr) ==
    LET Operator(c1, n, lt) ==
            IF n.op = "" THEN CDone(c1, n)
            ELSE IF lt.k \notin IntArrayFunc
                 THEN CFatal(c1, C_TYPE_MISMATCH, "augmented", n)
            ELSE IF lt.k \in {"ArrayType", "FuncType"}
                    /\ n.op \notin {"Add", "Sub"}
                 THEN CFatal(c1, C_TYPE_MISMATCH, "operator", n)
            ELSE CDone(c1, n)
        Props(c1, n, lt, props) ==
            IF ~props.ok THEN CRaise(c1, "AttributeError", n)
            ELSE IF ~props.lvalue
                 THEN CFatal(c1, C_TYPE_MISMATCH, "lvalue", n)
            ELSE Operator(c1, n, lt)
        Compared(c1, n, lt, e) ==
            IF e = "TypeError" THEN CRaise(c1, e, n)
            ELSE IF e = "False"
                 THEN CFatal(c1, C_TYPE_MISMATCH,
                             "left-hand side and right-hand side", n)
            ELSE Props(c1, n, lt,
                       ExprPropertyChecker(c1.tabs, c1.syms, c1.scope, n.lhs))
        Typed(c1, n, lt, rt) ==
            IF lt.k = "raise" THEN CRaise(c1, lt.exc, n)
            ELSE IF rt.k = "raise" THEN CRaise(c1, rt.exc, n)
            ELSE Compared(c1, n, lt,
                          CompareTypesEquiv(c1.tabs, c1.scope, lt, rt))
        Visited(r) ==
            IF r.st.exc # "" THEN r
            ELSE Typed(r.st, r.node,
                       GetExpressionType(r.st.tabs, r.st.syms, r.st.scope,
                                         r.node.lhs),
                       GetExpressionType(r.st.tabs, r.st.syms, r.st.scope,
                                         r.node.rhs))
    IN
    IF c.typedef_check THEN CDone(c, aexpr)
    ELSE Visited(Cgeneric_visit(c, aexpr))

\* for i, expr in enumerate(cexpr.value): the element types against the
\* type of the first element.
RECURSIVE CheckElements(_, _, _, _)
CheckElements(c, cexpr, inner_type, i) ==
    LET Compared(e) ==
            IF e = "TypeError" THEN CRaise(c, e, cexpr)
            ELSE IF e = "False"
                 THEN CFatalAt(c, C_TYPE_MISMATCH, "element",
                               cexpr.value[i].loc, cexpr)
            ELSE CheckElements(c, cexpr, inner_type, i + 1)
        Typed(t) ==
            IF t.k = "raise" THEN CRaise(c, t.exc, cexpr)
            ELSE Compared(CompareTypesEquiv(c.tabs, c.scope, inner_type, t))
    IN
    IF i > Len(cexpr.value) THEN CDone(c, cexpr)
    ELSE Typed(GetExpressionType(c.tabs, c.syms, c.scope, cexpr.value[i]))

Cvisit_ComplexExpr(c, cexpr) ==
    LET First(c1, n, inner_type) ==
            IF inner_type.k = "raise" THEN CRaise(c1, inner_type.exc, n)
            ELSE CheckElements(c1, n, inner_type, 1)
        Visited(r) ==
            IF r.st.exc # "" \/ r.node.type # "array" THEN r
            ELSE First(r.st, r.node,
                       GetExpressionType(r.st.tabs, r.st.syms, r.st.scope,
                                         r.node.value[1]))
    IN
    IF c.typedef_check THEN CDone(c, cexpr)
    ELSE Visited(Cgeneric_visit(c, cexpr))

Cvisit_VoidType(c, vtype) ==
    CFatalAt(c, C_VOIDTYPE_DISALLOWED, "unexpected void type.", NoLoc, vtype)

\* A checker that binds the declared type again, as the builder does.
Cvisit_TypeDeclBinding(c, tdecl) ==
    LET r == bind_symbol(c, c.scope, TypeSymbol(tdecl.name, tdecl.type),
                         TRUE)
    IN CDone([c EXCEPT !.tabs = r.tabs, !.syms = r.syms], tdecl)

Cvisit_TypeDecl(c, tdecl) ==
    LET Visited(r) ==
            IF r.st.exc # ""
            THEN [st |-> r.st, node |-> [tdecl EXCEPT !.type = r.node]]
            ELSE CDone([r.st EXCEPT !.typenames = SubSeq(@, 1, Len(@) - 1)],
                       [tdecl EXCEPT !.type = r.node])
    IN
    IF ~c.typedef_check THEN CDone(c, tdecl)
    ELSE Visited(CVisit([c EXCEPT !.typenames = Append(@, tdecl.name)],
                        tdecl.type))

\* '>'.join(typenames) + '>' + name
RECURSIVE Chain(_, _)
Chain(typenames, name) ==
    IF typenames = <<>> THEN name
    ELSE Head(typenames) \o ">" \o Chain(Tail(typenames), name)

InSeq(x, seq) == \E i \in 1..Len(seq) : seq[i] = x

Cvisit_RefType(c, rtype) ==
    LET Visited(c1, r) ==
            IF r.st.exc # "" THEN [st |-> r.st, node |-> rtype]
            ELSE CDone([r.st EXCEPT
                          !.scope = c1.scope,
                          !.typenames = SubSeq(@, 1, Len(@) - 1)], rtype)
        Referenced(c1, ttype) ==
            IF Len(c1.typenames) > 0
            THEN IF InSeq(rtype.ref_type_name, c1.typenames)
                 THEN CFatalAt(c1, C_CIRCTYPEDEF,
                               Chain(c1.typenames, rtype.ref_type_name),
                               NoLoc, rtype)
                 ELSE Visited(c1,
                              CVisit([c1 EXCEPT
                                        !.typenames =
                                            Append(@, rtype.ref_type_name),
                                        !.scope = c1.syms[ttype].table],
                                     c1.syms[ttype].type))
            ELSE CDone(c1, rtype)
        Found(ttype) ==
            IF ttype = 0
            THEN CFatalAt(c, C_TYPENOTEXIST, rtype.ref_type_name, NoLoc, rtype)
            ELSE Referenced(reference(c, ttype), ttype)
    IN
    IF ~c.typedef_check THEN CDone(c, rtype)
    ELSE Found(get_typesym(c.tabs, c.scope, rtype.ref_type_name, FALSE))

Cvisit_ArrayType(c, atype) ==
    LET Props(c2, n2, props) ==
            IF ~props.ok THEN CRaise(c2, "AttributeError", n2)
            ELSE IF ~props.const
                 THEN CFatalAt(c2, C_TYPE_MISMATCH,
                               "ArrayType size must be constant.", NoLoc, n2)
            ELSE CDone([c2 EXCEPT !.typenames = c.typenames], n2)
        Size(c2, n2) ==
            IF c2.exc # "" THEN [st |-> c2, node |-> n2]
            ELSE Props(c2, n2,
                       ExprPropertyChecker(c2.tabs, c2.syms, c2.scope, n2.size))
        Sized(n1, r2) == Size(r2.st, [n1 EXCEPT !.size = r2.node])
        Inner(c1, n1) ==
            IF c1.exc # "" THEN [st |-> c1, node |-> n1]
            ELSE IF atype.size.k = "None"
                 THEN CDone([c1 EXCEPT !.typenames = c.typenames], n1)
            ELSE Sized(n1, CVisit(c1, atype.size))
        Visited(r1) == Inner(r1.st, [atype EXCEPT !.inner_type = r1.node])
    IN
    Visited(IF atype.size.k # "None" \/ atype.inner_type.k # "VoidType"
            THEN CVisit([c EXCEPT !.typenames = <<>>], atype.inner_type)
            ELSE CDone([c EXCEPT !.typenames = <<>>], atype.inner_type))

\* for param_type in ftype.param_types: self.visit(param_type)
RECURSIVE CVisitParams(_, _, _)
CVisitParams(c, ftype, i) ==
    LET Visited(r) ==
            CVisitParams(r.st, [ftype EXCEPT !.param_types[i] = r.node], i + 1)
    IN
    IF i > Len(ftype.param_types) \/ c.exc # "" THEN CDone(c, ftype)
    ELSE Visited(CVisit(c, ftype.param_types[i]))

Cvisit_FuncType(c, ftype) ==
    LET Params(r2) ==
            IF r2.st.exc # "" THEN r2
            ELSE CDone([r2.st EXCEPT !.typenames = c.typenames], r2.node)
        Visited(r1) ==
            Params(CVisitParams(r1.st,
                                [ftype EXCEPT !.return_type = r1.node], 1))
    IN
    Visited(IF ftype.return_type.k # "VoidType"
            THEN CVisit([c EXCEPT !.typenames = <<>>], ftype.return_type)
            ELSE CDone([c EXCEPT !.typenames = <<>>], ftype.return_type))

Cvisit_MemberData(c, mdata) ==
    LET Visited(r) ==
            IF r.st.exc # "" THEN r
            ELSE IF /\ mdata.bits.k # "None"
                    /\ ExpandType(r.st.tabs, r.st.scope, r.node.type).k
                           # "IntType"
                 THEN CFatalAt(r.st, C_INVALIDBITS, mdata.name, NoLoc, r.node)
            ELSE r
    IN
    IF ~c.typedef_check THEN CDone(c, mdata)
    ELSE Visited(Cgeneric_visit(c, mdata))

\* fdecl.symref.get_created_functable() is None for a symbol that was
\* created without a function table; the first use of the scope then
\* raises AttributeError.
Cvisit_FuncDecl(c, fdecl) ==
    LET Visited(r) ==
            IF r.st.exc # "" THEN r
            ELSE CDone([r.st EXCEPT !.scope = r.st.tabs[@].parent,
                                    !.ret_type = None], r.node)
        Scoped(functable) ==
            IF functable = 0 THEN CRaise(c, "AttributeError", fdecl)
            ELSE Visited(Cgeneric_visit(
                     [c EXCEPT
                        !.ret_type = ExpandType(c.tabs, c.scope,
                                                fdecl.type.return_type),
                        !.scope = functable],
                     fdecl))
    IN
    IF fdecl.body.k = "None" THEN CDone(c, fdecl)
    ELSE IF fdecl.symref.k = "None" THEN CRaise(c, "AttributeError", fdecl)
    ELSE Scoped(c.syms[fdecl.symref.id].functable)

\* A visit_CompoundStmt without the return to the parent scope.
StayInScope(c, cstmt) ==
    IF cstmt.symref.k = "None" THEN CRaise(c, "AttributeError", cstmt)
    ELSE Cgeneric_visit([c EXCEPT !.scope = cstmt.symref.id], cstmt)

Cvisit_CompoundStmt(c, cstmt) ==
    LET Visited(r) ==
            IF r.st.exc # "" THEN r
            ELSE CDone([r.st EXCEPT !.scope = r.st.tabs[@].parent], r.node)
    IN
    IF cstmt.symref.k = "None" THEN CRaise(c, "AttributeError", cstmt)
    ELSE Visited(Cgeneric_visit([c EXCEPT !.scope = cstmt.symref.id], cstmt))

\* NodeVisitor.visit: visit_<class name>, else generic_visit.
CVisit(c, node) ==
    LET Dispatch(c1) ==
            CASE node.k = "IfStmt" -> Cvisit_IfStmt(c1, node)
              [] node.k = "IterStmt" -> Cvisit_IterStmt(c1, node)
              [] node.k = "ContinueStmt" -> Cvisit_ContinueStmt(c1, node)
              [] node.k = "BreakStmt" -> Cvisit_BreakStmt(c1, node)
              [] node.k = "ReturnStmt" -> Cvisit_ReturnStmt(c1, node)
              [] node.k = "VarDecl" -> Cvisit_VarDecl(c1, node)
              [] node.k = "ConstDecl" -> Cvisit_ConstDecl(c1, node)
              [] node.k = "AccessExpr" -> Cvisit_AccessExpr(c1, node)
              [] node.k = "CastExpr" -> Cvisit_CastExpr(c1, node)
              [] node.k = "BinaryExpr" -> Cvisit_BinaryExpr(c1, node)
              [] node.k = "BinaryCondExpr" -> Cvisit_BinaryCondExpr(c1, node)
              [] node.k = "AssignExpr" -> Cvisit_AssignExpr(c1, node)
              [] node.k = "ComplexExpr" -> Cvisit_ComplexExpr(c1, node)
              [] node.k = "VoidType" -> Cvisit_VoidType(c1, node)
              [] node.k = "TypeDecl" -> Cvisit_TypeDecl(c1, node)
              [] node.k = "RefType" -> Cvisit_RefType(c1, node)
              [] node.k = "ArrayType" -> Cvisit_ArrayType(c1, node)
              [] node.k = "FuncType" -> Cvisit_FuncType(c1, node)
              [] node.k = "MemberData" -> Cvisit_MemberData(c1, node)
              [] node.k = "FuncDecl" -> Cvisit_FuncDecl(c1, node)
              [] node.k = "CompoundStmt" -> Cvisit_CompoundStmt(c1, node)
              [] OTHER -> Cgeneric_visit(c1, node)
    IN
    IF c.exc # "" THEN CDone(c, node)
    ELSE Dispatch(Seen(c, node))

(***************************************************************************)
(* Sample modules, as nsparse.py builds them. A declaration is described   *)
(* by a tag and placed on a source line of its own, so that every node of  *)
(* a module has a span of its own.                                         *)
(***************************************************************************)
MaxDecls == 3

\* A node on line ln between two columns.
At(ln, c1, c2) == Span(ln, c1, ln, c2)

Ptr(type) == ArrayType(FALSE, type, None)

Void == VoidType(FALSE)

\* func name(p: ptype...) -> (void), with or without a body of stmts
Func(name, ptypes, pnames, body, flags, ln) ==
    FuncDecl(name, FuncType(FALSE, Void, ptypes, FALSE), pnames, body,
             flags[1], flags[2], At(ln, 0, 99))

Body(stmts, ln) == CompoundStmt(stmts, At(ln, 20, 99))

Use(name, ln, col) ==
    ExprStmt(NameExpr(name, At(ln, col, col)), At(ln, col, col + 1))

Let(name, type, value, ln, col) ==
    VarDecl(name, type, value, FALSE, At(ln, col, col + 9))

Using(name, type, ln, col) == TypeDecl(name, type, At(ln, col, col + 9))

Local(decl) == DefStmt(decl, decl.loc)

\* The (is_static, is_inline) pairs parse_func_decl produces: it eats one
\* modifier, and `inline` sets both.
FuncFlags == {<<FALSE, FALSE>>, <<TRUE, FALSE>>, <<TRUE, TRUE>>}

\* Declarations of one function f: prototypes and definitions.
FuncTags ==
    {[t |-> "func", flags |-> fl, ptype |-> pt, body |-> bd] :
        fl \in FuncFlags, pt \in {TInt, IntType(TRUE, "int")},
        bd \in BOOLEAN}
    \cup {[t |-> "func", flags |-> <<FALSE, FALSE>>, ptype |-> pt,
           body |-> bd] : pt \in {TLong, Ptr(TInt)}, bd \in BOOLEAN}

\* Uses, declarations, redeclarations and definitions of the names f, x, y.
NameTags ==
    {[t |-> "let", name |-> n[1], value |-> n[2]] :
        n \in {<<"x", "">>, <<"x", "y">>, <<"y", "">>, <<"y", "x">>}}
    \cup {[t |-> "g", body |-> b] :
            b \in {"f", "x", "x;let x", "let x;x"}}
    \cup {[t |-> "f", body |-> b] : b \in BOOLEAN}

\* Type declarations, at the top level and in a function body, and
\* declarations whose type names a type.
TypeTags ==
    {[t |-> "using", name |-> "T", type |-> ty] :
        ty \in {TInt, RefType(FALSE, "T"), RefType(FALSE, "U"),
                RefType(FALSE, "X"), Ptr(RefType(FALSE, "T")),
                StructType(FALSE, <<MemberData("x", RefType(FALSE, "T"),
                                               None)>>),
                StructType(FALSE, <<MemberData("x", RefType(FALSE, "U"),
                                               None)>>),
                StructType(FALSE, <<MemberData("x", Ptr(RefType(FALSE, "T")),
                                               None)>>)}}
    \cup {[t |-> "using", name |-> "U", type |-> ty] :
        ty \in {TInt, RefType(FALSE, "T"),
                StructType(FALSE, <<MemberData("x", RefType(FALSE, "T"),
                                               None)>>)}}
    \cup {[t |-> "f using", type |-> ty] :
        ty \in {TInt, RefType(FALSE, "T"), RefType(FALSE, "U")}}
    \cup {[t |-> "let", name |-> "x", type |-> ty] :
        ty \in {RefType(FALSE, "T"), RefType(FALSE, "X"),
                Ptr(RefType(FALSE, "X"))}}
    \cup {[t |-> "g param", type |-> RefType(FALSE, "X"), body |-> b] :
        b \in BOOLEAN}

\* Declarations of one global variable x: static or not, of type int,
\* volatile int or long, with or without the initialiser 1.
VarTags ==
    {[t |-> "var", static |-> st, type |-> ty, init |-> iv] :
        st \in BOOLEAN,
        ty \in {TInt, IntType(TRUE, "int"), TLong},
        iv \in BOOLEAN}

\* Global declarations of every kind (a function f or g whose body uses
\* one name, a prototype, a variable x, a constant c, a type T), to be
\* placed in any order.
ForwardTags ==
    {[t |-> "uses", name |-> n[1], body |-> n[2]] :
        n \in {<<"f", "g">>, <<"g", "f">>, <<"g", "x">>, <<"g", "c">>,
               <<"g", "y">>}}
    \cup {[t |-> "f", body |-> FALSE],
          [t |-> "var", static |-> FALSE, type |-> TInt, init |-> FALSE],
          [t |-> "set", name |-> "c"],
          [t |-> "using", name |-> "T", type |-> TInt]}

\* Declarations for the two passes of the Checker: types that name types,
\* a variable and a parameter of such a type.
CheckTags ==
    {[t |-> "using", name |-> "T", type |-> TInt],
     [t |-> "using", name |-> "U", type |-> RefType(FALSE, "T")],
     [t |-> "let", name |-> "x", type |-> RefType(FALSE, "T")],
     [t |-> "g param", type |-> RefType(FALSE, "U"), body |-> TRUE]}

\* Declarations with an initialiser and a function that assigns:
\* `let x: int;`, `let y: long;`, `set c: int := 2 + 3;`, an array a with
\* or without a size initialised by literals, by names or by a string, and
\* `func f() -> (void) { x := 1l; }` or `{ x := y; }`, and
\* `func g() -> (void) { while x { a + x; break; } }`.
InitTags ==
    {[t |-> "var", static |-> FALSE, type |-> TInt, init |-> FALSE],
     [t |-> "let", name |-> "y", type |-> TLong],
     [t |-> "set sum"]}
    \cup {[t |-> "array", size |-> n[1], init |-> n[2]] :
            n \in {<<0, "1,2,3,4">>, <<3, "1,2,3">>, <<0, "x,x">>,
                   <<0, "str">>}}
    \cup {[t |-> "assigns", rhs |-> r] : r \in {"1l", "y"}}
    \cup {[t |-> "loops"]}

\* A binary expression of class op[1] with the operator op[2].
Binary(op, left, right, loc) ==
    [k |-> op[1], left |-> left, op |-> op[2], right |-> right,
     symref |-> None, loc |-> loc]

\* An integer literal as parse_atom makes it, one column wide.
Literal(type, value, ln, col) ==
    IntExpr(PyStr(type), value, At(ln, col, col))

\* The initialiser of an array: `{ 1, 2, 3, 4 }`, `{ 1, 2, 3 }`, `{ x, x }`
\* or the string "abcd".
ArrayInit(init, ln) ==
    CASE init = "1,2,3,4" ->
            ComplexExpr("array",
                        [i \in 1..4 |-> Literal("int", i, ln, 20 + 2 * i)],
                        At(ln, 20, 30))
      [] init = "1,2,3" ->
            ComplexExpr("array",
                        [i \in 1..3 |-> Literal("int", i, ln, 20 + 2 * i)],
                        At(ln, 20, 28))
      [] init = "x,x" ->
            ComplexExpr("array",
                        [i \in 1..2 |->
                            NameExpr("x", At(ln, 20 + 2 * i, 20 + 2 * i))],
                        At(ln, 20, 26))
      [] init = "str" ->
            ComplexExpr("str", [i \in 1..4 |-> PyInt(96 + i)],
                        At(ln, 20, 25))

\* The declaration a tag describes, on line ln.
Decl(tag, ln) ==
    CASE tag.t = "func" ->
            Func("f", <<tag.ptype>>, <<"p">>,
                 IF tag.body THEN Body(<<>>, ln) ELSE None, tag.flags, ln)
      [] tag.t = "uses" ->
            Func(tag.name, <<>>, <<>>, Body(<<Use(tag.body, ln, 30)>>, ln),
                 <<FALSE, FALSE>>, ln)
      [] tag.t = "set" ->
            ConstDecl(tag.name, TInt,
                      IntExpr(PyStr("int"), 1, At(ln, 15, 15)), FALSE,
                      At(ln, 0, 16))
      [] tag.t = "set sum" ->
            ConstDecl("c", TInt,
                      Binary(<<"BinaryExpr", "Add">>,
                             Literal("int", 2, ln, 15),
                             Literal("int", 3, ln, 19), At(ln, 15, 19)),
                      FALSE, At(ln, 0, 20))
      [] tag.t = "array" ->
            VarDecl("a",
                    ArrayType(FALSE, TInt,
                              IF tag.size = 0 THEN None
                              ELSE Literal("int", tag.size, ln, 8)),
                    ArrayInit(tag.init, ln), FALSE, At(ln, 0, 31))
      [] tag.t = "assigns" ->
            Func("f", <<>>, <<>>,
                 Body(<<ExprStmt(
                          AssignExpr(NameExpr("x", At(ln, 30, 30)),
                                     IF tag.rhs = "1l"
                                     THEN Literal("long", 1, ln, 35)
                                     ELSE NameExpr("y", At(ln, 35, 35)),
                                     "", At(ln, 30, 36)),
                          At(ln, 30, 37))>>, ln),
                 <<FALSE, FALSE>>, ln)
      [] tag.t = "loops" ->
            Func("g", <<>>, <<>>,
                 Body(<<IterStmt(None, NameExpr("x", At(ln, 30, 30)), None,
                          CompoundStmt(
                            <<ExprStmt(
                                Binary(<<"BinaryExpr", "Add">>,
                                       NameExpr("a", At(ln, 40, 40)),
                                       NameExpr("x", At(ln, 44, 44)),
                                       At(ln, 40, 44)),
                                At(ln, 40, 45)),
                              BreakStmt(FALSE, "", At(ln, 50, 55))>>,
                            At(ln, 35, 60)),
                          None, "", At(ln, 25, 60))>>, ln),
                 <<FALSE, FALSE>>, ln)
      [] tag.t = "var" ->
            VarDecl("x", tag.type,
                    IF tag.init
                    THEN IntExpr(PyStr("int"), 1, At(ln, 15, 15))
                    ELSE None, tag.static, At(ln, 0, 16))
      [] tag.t = "let" /\ "value" \in DOMAIN tag ->
            Let(tag.name, TInt,
                IF tag.value = "" THEN None
                ELSE NameExpr(tag.value, At(ln, 15, 15)), ln, 0)
      [] tag.t = "let" /\ "type" \in DOMAIN tag ->
            Let(tag.name, tag.type, None, ln, 0)
      [] tag.t = "f" ->
            Func("f", <<>>, <<>>, IF tag.body THEN Body(<<>>, ln) ELSE None,
                 <<FALSE, FALSE>>, ln)
      [] tag.t = "g" ->
            Func("g", <<>>, <<>>,
                 Body(CASE tag.body = "f" -> <<Use("f", ln, 30)>>
                        [] tag.body = "x" -> <<Use("x", ln, 30)>>
                        [] tag.body = "x;let x" ->
                            <<Use("x", ln, 30),
                              Local(Let("x", TInt, None, ln, 40))>>
                        [] tag.body = "let x;x" ->
                            <<Local(Let("x", TInt, None, ln, 40)),
                              Use("x", ln, 60)>>, ln),
                 <<FALSE, FALSE>>, ln)
      [] tag.t = "using" -> Using(tag.name, tag.type, ln, 0)
      [] tag.t = "f using" ->
            Func("f", <<>>, <<>>,
                 Body(<<Local(Using("T", tag.type, ln, 30))>>, ln),
                 <<FALSE, FALSE>>, ln)
      [] tag.t = "g param" ->
            Func("g", <<tag.type>>, <<"p">>,
                 IF tag.body THEN Body(<<>>, ln) ELSE None,
                 <<FALSE, FALSE>>, ln)

\* The modules of one to MaxDecls declarations drawn from a set of tags.
RECURSIVE TagSeqs(_, _)
TagSeqs(tags, n) ==
    IF n = 0 THEN {<<>>}
    ELSE LET shorter == TagSeqs(tags, n - 1) IN
         shorter \cup {Append(q, x) : q \in {z \in shorter : Len(z) = n - 1},
                                      x \in tags}

ModuleOf(tagseq) ==
    Module([i \in 1..Len(tagseq) |-> Decl(tagseq[i], i)],
           Span(1, 0, Len(tagseq), 99))

ModulesOver(tags) == {ModuleOf(q) : q \in TagSeqs(tags, MaxDecls) \ {<<>>}}

\* A function whose body holds one if or loop on x, labelled or not, with
\* a break, breakif or continue inside it, directly or in a nested loop.
LabelCfgs ==
    [outer : {"IfStmt", "IterStmt"}, label : {"", "L"}, nested : BOOLEAN,
     jump : {"break", "breakif", "continue"}, target : {"", "L"}]

Cond(stmtk, cond_expr, body, label, loc) ==
    IF stmtk = "IfStmt" THEN IfStmt(cond_expr, body, None, label, loc)
    ELSE IterStmt(None, cond_expr, None, body, None, label, loc)

LabelModule(cfg) ==
    LET jump == IF cfg.jump = "continue"
                THEN ContinueStmt(cfg.target, At(2, 70, 80))
                ELSE BreakStmt(cfg.jump = "breakif", cfg.target,
                               At(2, 70, 80))
        inner == IF cfg.nested
                 THEN Cond("IterStmt", NameExpr("x", At(2, 55, 55)),
                           CompoundStmt(<<jump>>, At(2, 60, 90)), "",
                           At(2, 50, 90))
                 ELSE jump
        outer == Cond(cfg.outer, NameExpr("x", At(2, 35, 35)),
                      CompoundStmt(<<inner>>, At(2, 40, 95)), cfg.label,
                      At(2, 30, 95))
    IN Module(<<Let("x", TInt, None, 1, 0),
                Func("f", <<>>, <<>>, Body(<<outer>>, 2), <<FALSE, FALSE>>, 2)>>,
              Span(1, 0, 2, 99))

\* A function whose body is the expression statement `a op b;` over
\* declared operands of integer, alias, pointer and function type and an
\* integer literal.
Operands == {"x", "y", "t", "p", "q", "r", "f", "1"}

Operators ==
    {<<"BinaryExpr", "Add">>, <<"BinaryExpr", "Mul">>,
     <<"BinaryCondExpr", "Eq">>, <<"BinaryCondExpr", "ULt">>}

\* parse_atom: the type of an integer literal is the suffix string the
\* lexer returned.
Operand(name, ln, col) ==
    IF name = "1" THEN IntExpr(PyStr("int"), 1, At(ln, col, col))
    ELSE NameExpr(name, At(ln, col, col))

BinaryDecls ==
    <<Using("T", TInt, 1, 0),
      Let("x", TInt, None, 2, 0),
      Let("y", TLong, None, 3, 0),
      Let("t", RefType(FALSE, "T"), None, 4, 0),
      Let("p", Ptr(RefType(FALSE, "T")), None, 5, 0),
      Let("q", Ptr(RefType(FALSE, "T")), None, 6, 0),
      Let("r", Ptr(TLong), None, 7, 0)>>

BinaryModule(a, op, b) ==
    Module(BinaryDecls \o
           <<Func("f", <<>>, <<>>,
                  Body(<<ExprStmt(Binary(op, Operand(a, 8, 30),
                                         Operand(b, 8, 34), At(8, 30, 34)),
                                  At(8, 30, 35))>>, 8),
                  <<FALSE, FALSE>>, 8)>>,
           Span(1, 0, 8, 99))

\* The modules the pipeline is run on: from the tags of `family` when it
\* names a set of tags, from LabelCfgs or from Operands otherwise.
Families == {"FuncTags", "NameTags", "TypeTags", "VarTags", "LabelCfgs",
             "Operands"}

Modules(family) ==
    CASE family = "FuncTags" -> ModulesOver(FuncTags)
      [] family = "NameTags" -> ModulesOver(NameTags)
      [] family = "TypeTags" -> ModulesOver(TypeTags)
      [] family = "VarTags" -> ModulesOver(VarTags)
      [] family = "ForwardTags" -> ModulesOver(ForwardTags)
      [] family = "CheckTags" -> ModulesOver(CheckTags)
      [] family = "InitTags" -> ModulesOver(InitTags)
      [] family = "LabelCfgs" -> {LabelModule(cfg) : cfg \in LabelCfgs}
      [] family = "Operands" ->
            {BinaryModule(a, op, b) : a \in Operands, op \in Operators,
                                      b \in Operands}

(***************************************************************************)
(* GenerateTable and the Checker, one top-level declaration at a time      *)
(***************************************************************************)
MaxRuns == 2

\* The visitor objects over the heap (tabs, syms), the logger and the
\* exception in flight.
BState ==
    [tabs |-> tabs, syms |-> syms, curtab |-> bld.curtab,
     globalpass |-> bld.globalpass, success |-> bld.success,
     exc |-> exc, log |-> log]

CState ==
    [tabs |-> tabs, syms |-> syms, scope |-> chk.scope,
     success |-> chk.success, typedef_check |-> chk.typedef_check,
     typenames |-> chk.typenames, ret_type |-> chk.ret_type,
     last_if |-> chk.last_if, last_iter |-> chk.last_iter,
     exc |-> exc, log |-> log, visited |-> chk.visited]

BSet(b) ==
    /\ tabs' = b.tabs
    /\ syms' = b.syms
    /\ bld' = [curtab |-> b.curtab, globalpass |-> b.globalpass,
               success |-> b.success]
    /\ exc' = b.exc
    /\ log' = b.log

CSet(c) ==
    /\ tabs' = c.tabs
    /\ syms' = c.syms
    /\ chk' = [scope |-> c.scope, success |-> c.success,
               typedef_check |-> c.typedef_check,
               typenames |-> c.typenames, ret_type |-> c.ret_type,
               last_if |-> c.last_if, last_iter |-> c.last_iter,
               mark |-> chk.mark, visited |-> c.visited]
    /\ exc' = c.exc
    /\ log' = c.log

CompileInit ==
    /\ \E family \in Families : ast \in Modules(family)
    /\ pc = "GenerateTable"
    /\ idx = 0
    /\ bld = 0
    /\ chk = 0
    /\ log = <<>>
    /\ exc = ""
    /\ the_tree = 0
    /\ hist = <<>>
    /\ TablesIdle
    /\ TypesIdle
    /\ LexIdle
    /\ DriverIdle

\* GenerateTable up to the first loop of visit_Module: a new visitor, the
\* ModuleTable as symtab and curtab.
GenerateTable ==
    /\ pc = "GenerateTable"
    /\ ast.k = "Module"
    /\ tabs' = <<ModuleTable(NodeRef(ast), 0)>>
    /\ syms' = <<>>
    /\ bld' = [curtab |-> 1, globalpass |-> TRUE, success |-> TRUE]
    /\ pc' = "global pass"
    /\ idx' = 1
    /\ UNCHANGED <<ast, chk, log, exc, the_tree, hist>>
    /\ UNCHANGED <<driverVars, typeVars, lexVars>>

\* One iteration of a loop over the declarations of the module.
BuilderStep(pass) ==
    /\ pc = pass
    /\ idx <= Len(ast.decls)
    /\ \E r \in {BVisit(BState, ast.decls[idx])} :
        /\ BSet(r.st)
        /\ ast' = [ast EXCEPT !.decls[idx] = r.node]
        /\ pc' = IF r.st.exc # "" THEN "build raised" ELSE pass
        /\ idx' = idx + 1
    /\ UNCHANGED <<chk, the_tree, hist>>
    /\ UNCHANGED <<driverVars, typeVars, lexVars>>

GlobalPass ==
    /\ pc = "global pass"
    /\ bld.globalpass
    /\ BuilderStep("global pass")

\* A builder that leaves the first loop after its first declaration.
EndGlobalPassEarly ==
    /\ pc = "global pass"
    /\ idx > 1
    /\ bld' = [bld EXCEPT !.globalpass = FALSE]
    /\ pc' = "local pass"
    /\ idx' = 1
    /\ UNCHANGED <<ast, tabs, syms, chk, log, exc, the_tree, hist>>
    /\ UNCHANGED <<driverVars, typeVars, lexVars>>

\* globalpass = False between the two loops
EndGlobalPass ==
    /\ pc = "global pass"
    /\ idx > Len(ast.decls)
    /\ bld' = [bld EXCEPT !.globalpass = FALSE]
    /\ pc' = "local pass"
    /\ idx' = 1
    /\ UNCHANGED <<ast, tabs, syms, chk, log, exc, the_tree, hist>>
    /\ UNCHANGED <<driverVars, typeVars, lexVars>>

LocalPass ==
    /\ pc = "local pass"
    /\ ~bld.globalpass
    /\ BuilderStep("local pass")

\* The end of visit_Module and of GenerateTable.
EndGenerateTable ==
    /\ pc = "local pass"
    /\ idx > Len(ast.decls)
    /\ bld' = [bld EXCEPT !.curtab = tabs[@].parent]
    /\ the_tree' = IF bld.success THEN 1 ELSE the_tree
    /\ pc' = "built"
    /\ UNCHANGED <<ast, idx, tabs, syms, chk, log, exc, hist>>
    /\ UNCHANGED <<driverVars, typeVars, lexVars>>

\* Checker() and the start of its visit_Module; also a further run on the
\* AST a finished run has left.
StartChecker ==
    /\ \/ pc = "built" /\ bld.success
       \/ pc = "checked" /\ Len(hist) < MaxRuns
    /\ LET c == NewChecker(tabs, syms, the_tree, log) IN
        chk' = [scope |-> c.scope, success |-> c.success,
                typedef_check |-> c.typedef_check,
                typenames |-> c.typenames, ret_type |-> c.ret_type,
                last_if |-> c.last_if, last_iter |-> c.last_iter,
                mark |-> Len(log), visited |-> Seen(c, ast).visited]
    /\ exc' = ""
    /\ pc' = "pass A"
    /\ idx' = 1
    /\ UNCHANGED <<ast, tabs, syms, bld, log, the_tree, hist>>
    /\ UNCHANGED <<driverVars, typeVars, lexVars>>

\* What a Checker run leaves behind.
Run(c, tree) ==
    [ast |-> tree, success |-> c.success, exc |-> c.exc,
     diags |-> SubSeq(c.log, chk.mark + 1, Len(c.log))]

CheckerStep(pass) ==
    /\ pc = pass
    /\ idx <= Len(ast.decls)
    /\ \E r \in {CVisit(CState, ast.decls[idx])} :
        /\ CSet(r.st)
        /\ ast' = [ast EXCEPT !.decls[idx] = r.node]
        /\ pc' = IF r.st.exc # "" THEN "checked" ELSE pass
        /\ hist' = IF r.st.exc # ""
                   THEN Append(hist, Run(r.st, [ast EXCEPT !.decls[idx] = r.node]))
                   ELSE hist
        /\ idx' = idx + 1
    /\ UNCHANGED <<bld, the_tree>>
    /\ UNCHANGED <<driverVars, typeVars, lexVars>>

PassA ==
    /\ pc = "pass A"
    /\ chk.typedef_check
    /\ CheckerStep("pass A")

\* typedef_check = False between the two passes
EndPassA ==
    /\ pc = "pass A"
    /\ idx > Len(ast.decls)
    /\ chk' = [chk EXCEPT !.typedef_check = FALSE]
    /\ pc' = "pass B"
    /\ idx' = 1
    /\ UNCHANGED <<ast, tabs, syms, bld, log, exc, the_tree, hist>>
    /\ UNCHANGED <<driverVars, typeVars, lexVars>>

PassB ==
    /\ pc = "pass B"
    /\ ~chk.typedef_check
    /\ CheckerStep("pass B")

EndChecker ==
    /\ pc = "pass B"
    /\ idx > Len(ast.decls)
    /\ pc' = "checked"
    /\ hist' = Append(hist, Run(CState, ast))
    /\ UNCHANGED <<ast, idx, tabs, syms, bld, chk, log, exc, the_tree>>
    /\ UNCHANGED <<driverVars, typeVars, lexVars>>

CompileNext ==
    \/ GenerateTable
    \/ GlobalPass
    \/ EndGlobalPass
    \/ LocalPass
    \/ EndGenerateTable
    \/ StartChecker
    \/ PassA
    \/ EndPassA
    \/ PassB
    \/ EndChecker

SpecCompile == CompileInit /\ [][CompileNext]_vars

\* GenerateTable alone, on modules of global declarations in any order.
BuildInit ==
    /\ ast \in Modules("ForwardTags")
    /\ pc = "GenerateTable"
    /\ idx = 0
    /\ bld = 0
    /\ chk = 0
    /\ log = <<>>
    /\ exc = ""
    /\ the_tree = 0
    /\ hist = <<>>
    /\ TablesIdle
    /\ TypesIdle
    /\ LexIdle
    /\ DriverIdle

\* GenerateTable and the Checker on modules that pass the builder.
CheckInit ==
    /\ \E family \in {"CheckTags", "InitTags", "LabelCfgs", "Operands"} :
            ast \in Modules(family)
    /\ pc = "GenerateTable"
    /\ idx = 0
    /\ bld = 0
    /\ chk = 0
    /\ log = <<>>
    /\ exc = ""
    /\ the_tree = 0
    /\ hist = <<>>
    /\ TablesIdle
    /\ TypesIdle
    /\ LexIdle
    /\ DriverIdle

SpecCheck == CheckInit /\ [][CompileNext]_vars

BuildNext ==
    \/ GenerateTable
    \/ GlobalPass
    \/ EndGlobalPass
    \/ LocalPass
    \/ EndGenerateTable

SpecBuild == BuildInit /\ [][BuildNext]_vars

(***************************************************************************)
(* Calls of ExpandType and CompareTypesEquiv on sample scopes and types    *)
(***************************************************************************)
\* Types without a type inside.
AtomTypes ==
    {VoidType(FALSE), TInt, TLong, IntType(TRUE, "int"),
     RefType(FALSE, "T"), RefType(FALSE, "U"), RefType(FALSE, "X")}

\* Pointers (arrays without a size) to them, function types and records.
SampleTypes ==
    AtomTypes
    \cup {ArrayType(FALSE, a, None) : a \in AtomTypes}
    \cup {FuncType(FALSE, r, <<>>, FALSE) : r \in {VoidType(FALSE), TInt}}
    \cup {FuncType(FALSE, r, <<TInt>>, v) :
            r \in {VoidType(FALSE), TInt}, v \in BOOLEAN}
    \cup {StructType(FALSE, <<MemberData("x", a, None)>>) :
            a \in {TInt, RefType(FALSE, "T")}}
    \cup {UnionType(FALSE, <<MemberData("x", a, None)>>) :
            a \in {TInt, RefType(FALSE, "T")}}

\* What a `using name := type;` leaves in a scope (visit_TypeDecl); None
\* stands for no declaration.
DeclareType(st, scope, name, type) ==
    IF type.k = "None" THEN st
    ELSE LET r == bind_symbol(st, scope, TypeSymbol(name, type), FALSE) IN
         [tabs |-> r.tabs, syms |-> r.syms]

\* A module scope (1) declaring T and U, and a block scope (2) inside it
\* that may declare T again.
TypeEnv(gT, gU, lT) ==
    DeclareType(
        DeclareType(
            DeclareType([tabs |-> <<ModuleTable(None, 0), BlockTable(None, 1)>>,
                         syms |-> <<>>], 1, "T", gT),
            1, "U", gU),
        2, "T", lT)

TypeEnvs ==
    {TypeEnv(gT, gU, lT) :
        gT \in {None, TInt, RefType(FALSE, "U")},
        gU \in {None, TLong, RefType(FALSE, "T"),
                StructType(FALSE, <<MemberData("x", TInt, None)>>)},
        lT \in {None, TLong}}

TypesInit ==
    /\ \E e \in TypeEnvs : tabs = e.tabs /\ syms = e.syms
    /\ tScope \in {1, 2}
    /\ tA \in SampleTypes
    /\ tB \in SampleTypes
    /\ tpc = "args"
    /\ tOut = [expand |-> None, aa |-> "", ab |-> "", ba |-> ""]
    /\ DriverIdle
    /\ CompileIdle
    /\ LexIdle

\* ExpandType(scope, tA)
CallExpandType ==
    /\ tpc = "args"
    /\ tpc' = "ExpandType"
    /\ tOut' = [tOut EXCEPT !.expand = ExpandType(tabs, tScope, tA)]
    /\ UNCHANGED <<tScope, tA, tB, driverVars, tableVars, compileVars,
                 lexVars>>

\* CompareTypesEquiv(scope, tA, tA), (scope, tA, tB) and (scope, tB, tA)
CallCompareTypesEquiv ==
    /\ tpc = "args"
    /\ tpc' = "CompareTypesEquiv"
    /\ tOut' = [tOut EXCEPT !.aa = CompareTypesEquiv(tabs, tScope, tA, tA),
                            !.ab = CompareTypesEquiv(tabs, tScope, tA, tB),
                            !.ba = CompareTypesEquiv(tabs, tScope, tB, tA)]
    /\ UNCHANGED <<tScope, tA, tB, driverVars, tableVars, compileVars,
                 lexVars>>

TypesNext ==
    \/ CallExpandType
    \/ CallCompareTypesEquiv

SpecTypes == TypesInit /\ [][TypesNext]_vars

(***************************************************************************)
(* C6, C7                                                                  *)
(***************************************************************************)
\* The type recorded in the TypeSymbol that outward lookup finds, followed
\* for at most n steps: the first type that is not a reference, None when a
\* name has no TypeSymbol, and "cycle" when n steps were not enough.
RECURSIVE ResolveRef(_, _, _, _, _)
ResolveRef(T, S, scope, type, n) ==
    IF type.k # "RefType" THEN type
    ELSE IF n = 0 THEN [k |-> "cycle"]
    ELSE LET s == get_typesym(T, scope, type.ref_type_name, FALSE) IN
         IF s = 0 THEN None
         ELSE ResolveRef(T, S, scope, S[s].type, n - 1)

Resolved(T, S, scope, type) ==
    ResolveRef(T, S, scope, type, Cardinality(TypeIdents))

\* Every reference in the type names a declared typedef whose chain ends.
RECURSIVE WellFormed(_, _, _, _)
WellFormed(T, S, scope, type) ==
    IF type.k = "RefType"
    THEN Resolved(T, S, scope, type).k \notin {"None", "cycle"}
    ELSE IF type.k = "ArrayType"
         THEN WellFormed(T, S, scope, type.inner_type)
    ELSE IF type.k = "FuncType"
         THEN /\ WellFormed(T, S, scope, type.return_type)
              /\ \A i \in 1..Len(type.param_types) :
                    WellFormed(T, S, scope, type.param_types[i])
    ELSE IF type.k \in {"StructType", "UnionType"}
         THEN \A i \in 1..Len(type.members) :
                    WellFormed(T, S, scope, type.members[i].type)
    ELSE TRUE

\* C6: CompareTypesEquiv(scope, t, t) is true for every type t well formed
\* in scope, CompareTypesEquiv(scope, a, b) and CompareTypesEquiv(scope, b,
\* a) give the same result, and no call raises.
C6_EquivReflexiveSymmetric ==
    tpc = "CompareTypesEquiv" =>
        /\ WellFormed(tabs, syms, tScope, tA) => tOut.aa = "True"
        /\ tOut.ab = tOut.ba
        /\ "TypeError" \notin {tOut.aa, tOut.ab, tOut.ba}

\* C7: ExpandType(scope, T) is T when T is not a reference, otherwise the
\* first non-reference type on the chain of TypeSymbols, or None when a
\* name on the chain has no TypeSymbol; it is never a reference type and
\* never a symbol record.
C7_ExpandResolves ==
    tpc = "ExpandType" =>
        /\ tOut.expand.k # "RefType"
        /\ tOut.expand.k # "TypeSymbol"
        /\ Resolved(tabs, syms, tScope, tA).k # "cycle" =>
                tOut.expand = Resolved(tabs, syms, tScope, tA)

(***************************************************************************)
(* C2: name resolution after GenerateTable                                 *)
(***************************************************************************)
\* The scope the children of a node are in: the FuncTable a defined
\* function created, the BlockTable of a compound statement, otherwise the
\* scope of the node.
ScopeInside(node, scope) ==
    IF node.k = "CompoundStmt" /\ node.symref.k = "BlockTable"
    THEN node.symref.id
    ELSE IF /\ node.k = "FuncDecl"
            /\ node.symref.k = "FuncSymbol"
            /\ syms[node.symref.id].functable # 0
         THEN syms[node.symref.id].functable
    ELSE scope

\* Every NameExpr under a node, with its enclosing scope.
RECURSIVE NameUses(_, _)
NameUses(node, scope) ==
    IF node.k = "NameExpr" THEN {[node |-> node, scope |-> scope]}
    ELSE UNION {NameUses(GetChild(node, slot), ScopeInside(node, scope)) :
                    slot \in {iter_child_nodes(node)[i] :
                                i \in 1..Len(iter_child_nodes(node))}}

GenerateTableSucceeded == pc = "built" /\ bld.success

\* C2: after GenerateTable has returned success, every NameExpr of the
\* module has a symref, and outward lookup of its name from its enclosing
\* scope in the finished table returns that same symbol object.
C2_NamesResolved ==
    GenerateTableSucceeded =>
        \A u \in NameUses(ast, 1) :
            /\ u.node.symref.k # "None"
            /\ get_namesym(tabs, u.scope, u.node.name, FALSE)
                    = u.node.symref.id

(***************************************************************************)
(* C3: labels                                                              *)
(***************************************************************************)
\* Every node at or under a node, with its enclosing scope.
RECURSIVE NodesIn(_, _)
NodesIn(node, scope) ==
    {[node |-> node, scope |-> scope]}
    \cup UNION {NodesIn(GetChild(node, slot), ScopeInside(node, scope)) :
                    slot \in {iter_child_nodes(node)[i] :
                                i \in 1..Len(iter_child_nodes(node))}}

\* The labelled if and loop statements of the module.
Labelled ==
    {u \in NodesIn(ast, 1) :
        u.node.k \in {"IfStmt", "IterStmt"} /\ u.node.label # ""}

\* The statement class a jump leaves or continues.
JumpTarget(jump) ==
    IF jump.k = "BreakStmt" /\ jump.breakif THEN "IfStmt" ELSE "IterStmt"

\* The jumps inside a labelled statement that name its label and fit its
\* class.
JumpsTo(stmt) ==
    {u.node : u \in {v \in NodesIn(stmt, 0) :
                        /\ v.node.k \in {"BreakStmt", "ContinueStmt"}
                        /\ v.node.label = stmt.label
                        /\ JumpTarget(v.node) = stmt.k}}

\* C3: after the builder the label of a labelled IfStmt or IterStmt is
\* bound, in the label namespace of the enclosing scope, to a LabelSymbol
\* for that statement; and after the checker every `break L`, `breakif L`
\* or `continue L` inside it has that statement as its symref.
C3_LabelsBound ==
    /\ GenerateTableSucceeded =>
            \A s \in Labelled :
                /\ get_labelsym(tabs, s.scope, s.node.label, FALSE) # 0
                /\ syms[get_labelsym(tabs, s.scope, s.node.label, FALSE)].cls
                        = "LabelSymbol"
    /\ pc = "checked" =>
            \A s \in Labelled :
                \A jump \in JumpsTo(s.node) : jump.symref = NodeRef(s.node)

(***************************************************************************)
(* C4: the conversion of the right operand                                 *)
(***************************************************************************)
\* Two types denote the same type once every typedef name in them is
\* replaced by the type it was declared as.
RECURSIVE SameType(_, _, _, _, _)
SameType(T, S, scope, a, b) ==
    LET ra == Resolved(T, S, scope, a)
        rb == Resolved(T, S, scope, b)
    IN
    IF ra.k # rb.k \/ ra.k \in {"None", "cycle"} THEN FALSE
    ELSE IF ra.k = "IntType" THEN ra.type = rb.type
    ELSE IF ra.k = "ArrayType"
         THEN SameType(T, S, scope, ra.inner_type, rb.inner_type)
    ELSE IF ra.k = "FuncType"
         THEN /\ ra.is_variadic = rb.is_variadic
              /\ SameType(T, S, scope, ra.return_type, rb.return_type)
              /\ Len(ra.param_types) = Len(rb.param_types)
              /\ \A i \in 1..Len(ra.param_types) :
                    SameType(T, S, scope, ra.param_types[i], rb.param_types[i])
    ELSE IF ra.k \in {"StructType", "UnionType"}
         THEN /\ Len(ra.members) = Len(rb.members)
              /\ \A i \in 1..Len(ra.members) :
                    /\ ra.members[i].name = rb.members[i].name
                    /\ ra.members[i].bits = rb.members[i].bits
                    /\ SameType(T, S, scope, ra.members[i].type,
                                rb.members[i].type)
    ELSE TRUE

\* The type of an operand of the sample expressions: the declared type of
\* a name with its typedef names resolved, the suffix type of a literal.
OperandType(T, S, scope, expr) ==
    IF expr.k = "IntExpr" THEN IntType(FALSE, expr.type.v)
    ELSE Resolved(T, S, scope,
                  S[get_namesym(T, scope, expr.name, FALSE)].type)

\* The binary expressions of a tree, each with its scope.
BinariesOf(tree) ==
    {u \in NodesIn(tree, 1) : u.node.k \in {"BinaryExpr", "BinaryCondExpr"}}

\* The right operand as it was before the checker ran.
OriginalRight(bexpr) ==
    IF bexpr.right.k = "CastExpr" THEN bexpr.right.expr ELSE bexpr.right

\* The conversion rule for one binary expression the checker has left.
ConvertedWhenDue(T, S, scope, bexpr) ==
    LET left_type == OperandType(T, S, scope, bexpr.left)
        right_type == OperandType(T, S, scope, OriginalRight(bexpr))
    IN
    /\ bexpr.right.k = "CastExpr"
            <=> /\ ~SameType(T, S, scope, left_type, right_type)
                /\ left_type.k = "IntType"
                /\ right_type.k = "IntType"
    /\ bexpr.right.k = "CastExpr" =>
            /\ bexpr.right.signed = FALSE
            /\ bexpr.right.cast_type = left_type
            /\ bexpr.right.expr.k # "CastExpr"
            /\ bexpr.right.loc = bexpr.right.expr.loc

\* C4: in a tree the checker has passed, the right operand of a BinaryExpr
\* or BinaryCondExpr is a CastExpr if and only if the two operand types
\* are not equivalent and both are integer types; the cast has signed =
\* false, the left operand's type as cast_type, the original right operand
\* as expr and its four span fields.
C4_CastIffIntegerMismatch ==
    (Len(hist) >= 1 /\ hist[1].exc = "" /\ hist[1].success) =>
        \A u \in BinariesOf(hist[1].ast) :
            ConvertedWhenDue(tabs, syms, u.scope, u.node)

(***************************************************************************)
(* C5: a second run of the checker                                         *)
(***************************************************************************)
\* C5: a second Checker run on the tree a first run has passed, with the
\* same symbol table, emits the same sequence of diagnostics, warnings
\* included, and leaves the tree as the first run left it.
C5_SecondRunSame ==
    (Len(hist) >= 2 /\ hist[1].exc = "" /\ hist[1].success) =>
        /\ hist[2].diags = hist[1].diags
        /\ hist[2].ast = hist[1].ast

(***************************************************************************)
(* C8: circular type declarations                                          *)
(***************************************************************************)
\* Following a type by value from a scope comes back to a TypeSymbol that
\* is already being resolved: a reference leads to the declared type of
\* the TypeSymbol that lookup finds, in the scope of that symbol; struct
\* and union members are held by value; arrays, pointers and function
\* types are not.
RECURSIVE ReachesAgain(_, _, _)
ReachesAgain(type, scope, seen) ==
    IF type.k = "RefType"
    THEN LET s == get_typesym(tabs, scope, type.ref_type_name, FALSE) IN
         /\ s # 0
         /\ \/ s \in seen
            \/ ReachesAgain(syms[s].type, syms[s].table, seen \cup {s})
    ELSE IF type.k \in {"StructType", "UnionType"}
         THEN \E i \in 1..Len(type.members) :
                    ReachesAgain(type.members[i].type, scope, seen)
    ELSE FALSE

\* The type declarations of the module the builder has bound.
TypeDecls ==
    {u \in NodesIn(ast, 1) :
        u.node.k = "TypeDecl" /\ u.node.symref.k = "TypeSymbol"}

ByValueCycle ==
    \E u \in TypeDecls : ReachesAgain(u.node.type, u.scope, {u.node.symref.id})

Raised(run, code) ==
    \E i \in 1..Len(run.diags) : run.diags[i].code = code

\* The module `using T := U; using U := T;`.
TwoAliases ==
    /\ Len(ast.decls) = 2
    /\ \A i \in 1..2 : ast.decls[i].k = "TypeDecl"
    /\ ast.decls[1].name = "T" /\ ast.decls[1].type = RefType(FALSE, "U")
    /\ ast.decls[2].name = "U" /\ ast.decls[2].type = RefType(FALSE, "T")

\* C8: Pass A raises C20 with the chain of names when the resolution of a
\* type declaration comes back to a name under resolution: two mutually
\* referencing aliases raise C20 with the chain T>U>T or U>T>U, a run over
\* declarations with a by-value cycle does not complete, and declarations
\* without a by-value cycle raise no C20.
C8_CircularTypedef ==
    Len(hist) >= 1 =>
        /\ TwoAliases =>
                \E i \in 1..Len(hist[1].diags) :
                    /\ hist[1].diags[i].code = C_CIRCTYPEDEF
                    /\ hist[1].diags[i].msg \in {"T>U>T", "U>T>U"}
        /\ ByValueCycle => hist[1].exc # ""
        /\ Raised(hist[1], C_CIRCTYPEDEF) => ByValueCycle

(***************************************************************************)
(* C9: references to types that do not exist                               *)
(***************************************************************************)
\* The reference types of the module whose name outward type lookup from
\* the enclosing scope does not find.
UnknownRefs ==
    {u \in NodesIn(ast, 1) :
        /\ u.node.k = "RefType"
        /\ get_typesym(tabs, u.scope, u.node.ref_type_name, FALSE) = 0}

Passed(run) == run.success /\ run.exc = ""

\* C9: a module that reaches the checker with a reference type whose name
\* has no TypeSymbol does not pass the checker.
C9_UnknownTypeRejected ==
    (Len(hist) >= 1 /\ UnknownRefs # {}) => ~Passed(hist[1])

(***************************************************************************)
(* C10: redeclared functions                                               *)
(***************************************************************************)
\* The module is a sequence of global declarations of one function, each
\* a prototype or a definition with an empty body.
OneFunction ==
    \A i \in 1..Len(ast.decls) :
        /\ ast.decls[i].k = "FuncDecl"
        /\ ast.decls[i].name = ast.decls[1].name
        /\ ast.decls[i].body.k # "None" => ast.decls[i].body.stmts = <<>>

\* All declarations agree on is_static, is_inline and the function type.
Agree ==
    \A i, j \in 1..Len(ast.decls) :
        /\ ast.decls[i].is_static = ast.decls[j].is_static
        /\ ast.decls[i].is_inline = ast.decls[j].is_inline
        /\ ast.decls[i].type = ast.decls[j].type

AtMostOneBody ==
    Cardinality({i \in 1..Len(ast.decls) : ast.decls[i].body.k # "None"}) <= 1

\* C10: the builder accepts a sequence of global declarations of one
\* function exactly when they agree on is_static, is_inline and the
\* function type and at most one has a body; otherwise it raises a fatal
\* ST12, ST11 or ST15 and the build fails.
C10_FuncRedeclaration ==
    OneFunction =>
        /\ pc = "built" => bld.success /\ Agree /\ AtMostOneBody
        /\ pc = "build raised" =>
                /\ ~(Agree /\ AtMostOneBody)
                /\ ~bld.success
                /\ log[Len(log)].code \in
                        {L_FUNC_REDECL_MISMATCH, L_TYPE_MISMATCH,
                         L_CANNOT_REDEFINE}

(***************************************************************************)
(* C11: redeclared global variables                                        *)
(***************************************************************************)
\* The module is a sequence of global declarations of one variable, each
\* without an initialiser or initialised by an integer literal.
OneVariable ==
    \A i \in 1..Len(ast.decls) :
        /\ ast.decls[i].k = "VarDecl"
        /\ ast.decls[i].name = ast.decls[1].name
        /\ ast.decls[i].type.k = "IntType"
        /\ ast.decls[i].value.k \in {"None", "IntExpr"}

\* All declarations agree on is_static and on the declared type.
AgreeVar ==
    \A i, j \in 1..Len(ast.decls) :
        /\ ast.decls[i].is_static = ast.decls[j].is_static
        /\ ast.decls[i].type = ast.decls[j].type

AtMostOneInit ==
    Cardinality({i \in 1..Len(ast.decls) : ast.decls[i].value.k # "None"})
        <= 1

\* C11: the builder accepts a sequence of global declarations of one
\* variable exactly when they agree on is_static and the declared type and
\* at most one has an initialiser; otherwise it raises a fatal ST14, ST11
\* or ST15 and the build fails.
C11_VarRedeclaration ==
    OneVariable =>
        /\ pc = "built" => bld.success /\ AgreeVar /\ AtMostOneInit
        /\ pc = "build raised" =>
                /\ ~(AgreeVar /\ AtMostOneInit)
                /\ ~bld.success
                /\ log[Len(log)].code \in
                        {L_VAR_REDECL_MISMATCH, L_TYPE_MISMATCH,
                         L_CANNOT_REDEFINE}

(***************************************************************************)
(* C12: the global pass comes before every function body                   *)
(***************************************************************************)
\* The names the module declares at the top level.
GlobalNames == {ast.decls[i].name : i \in 1..Len(ast.decls)}

\* A top-level declaration is bound in the module table.
BoundInModule(decl) ==
    IF decl.k = "TypeDecl" THEN get_typesym(tabs, 1, decl.name, TRUE) # 0
    ELSE get_namesym(tabs, 1, decl.name, TRUE) # 0

\* The local pass has raised ST20 at a NameExpr.
UseBeforeDeclIn(nexpr) ==
    /\ pc = "build raised"
    /\ ~bld.globalpass
    /\ log[Len(log)].code = L_USE_BEFORE_DECL
    /\ log[Len(log)].loc = nexpr.loc

\* C12: when the local pass starts, and for as long as it runs, every
\* global declaration of the module, before or after the function being
\* analysed, is bound in the module table; the local pass never raises
\* ST20 at a use of a name the module declares at the top level.
C12_GlobalsBoundBeforeBodies ==
    /\ pc = "local pass" =>
            \A i \in 1..Len(ast.decls) : BoundInModule(ast.decls[i])
    /\ \A u \in NameUses(ast, 1) :
            UseBeforeDeclIn(u.node) => u.node.name \notin GlobalNames

\* Two functions that call each other, and a use of a variable declared
\* after the function that uses it, have been resolved.
C12_Witness ==
    /\ pc = "built"
    /\ bld.success
    /\ \E i, j, k \in 1..Len(ast.decls) :
            /\ i < j /\ j < k
            /\ ast.decls[i].k = "FuncDecl"
            /\ ast.decls[j].k = "FuncDecl"
            /\ ast.decls[k].k = "VarDecl"
            /\ \E u \in NameUses(ast.decls[i], 1) :
                    /\ u.node.name = ast.decls[j].name
                    /\ u.node.symref.k = "FuncSymbol"
            /\ \E u \in NameUses(ast.decls[j], 1) :
                    /\ u.node.name = ast.decls[k].name
                    /\ u.node.symref.k = "VarSymbol"

(***************************************************************************)
(* C13: the symbol table under the Checker                                 *)
(***************************************************************************)
\* The positions of the pipeline from which a step belongs to the Checker.
CheckerPcs == {"built", "pass A", "pass B", "checked"}

\* A symbol with its referenced flag left out.
Unflagged(sym) == [sym EXCEPT !.isreferenced = FALSE]

TableKept == pc \in CheckerPcs => (tabs' = tabs /\ syms' = syms)

TableKeptButReferenced ==
    pc \in CheckerPcs =>
        /\ tabs' = tabs
        /\ Len(syms') = Len(syms)
        /\ \A id \in 1..Len(syms) :
            /\ Unflagged(syms'[id]) = Unflagged(syms[id])
            /\ syms'[id].isreferenced # syms[id].isreferenced =>
                    /\ syms'[id].isreferenced
                    /\ syms[id].cls \in {"TypeSymbol", "LabelSymbol"}

Patched(a) ==
    IF /\ a.k \in {"VarDecl", "ConstDecl"}
       /\ a.type.k = "ArrayType"
       /\ a.type.size.k = "None"
       /\ a.value.k = "ComplexExpr"
    THEN [a EXCEPT !.type.size = IntExpr(IntType(FALSE, "long"),
                                         Len(a.value.value), NoLoc)]
    ELSE a

\* Node b is node a but for the changes of the kinds allowed: "cast" (the
\* right operand of a binary expression wrapped in a CastExpr), "symref"
\* (the symref of a break or continue), "size" (the size of an array
\* declared without one).
RECURSIVE ChangedOnlyBy(_, _, _)
ChangedOnlyBy(a, b, allowed) ==
    LET Child(x, y) ==
            IF IsAST(x) /\ IsAST(y) THEN ChangedOnlyBy(x, y, allowed)
            ELSE x = y
        Field(x, y, f) ==
            IF f \notin {ChildFields(x.k)[i] : i \in 1..Len(ChildFields(x.k))}
            THEN \/ x[f] = y[f]
                 \/ /\ f = "symref"
                    /\ "symref" \in allowed
                    /\ x.k \in {"ContinueStmt", "BreakStmt"}
            ELSE IF IsListField(x, f)
                 THEN /\ Len(x[f]) = Len(y[f])
                      /\ \A i \in 1..Len(x[f]) : Child(x[f][i], y[f][i])
            ELSE \/ Child(x[f], y[f])
                 \/ /\ f = "right"
                    /\ "cast" \in allowed
                    /\ x.k \in {"BinaryExpr", "BinaryCondExpr"}
                    /\ y[f].k = "CastExpr"
                    /\ Child(x[f], y[f].expr)
        Fields(x, y) ==
            /\ DOMAIN x = DOMAIN y
            /\ \A f \in DOMAIN x : Field(x, y, f)
    IN
    \/ a = b
    \/ Fields(a, b)
    \/ "size" \in allowed /\ Patched(a) # a /\ Fields(Patched(a), b)

OnlyCasts == pc \in CheckerPcs => ChangedOnlyBy(ast, ast', {"cast"})

OnlyCastsSymrefsSizes ==
    pc \in CheckerPcs => ChangedOnlyBy(ast, ast', {"cast", "symref", "size"})

ConstantSum ==
    /\ Len(ast.decls) = 1
    /\ ast.decls[1].k = "ConstDecl"
    /\ ~ast.decls[1].is_static
    /\ ast.decls[1].type = TInt
    /\ ast.decls[1].value.k = "BinaryExpr"
    /\ ast.decls[1].value.left.k = "IntExpr"
    /\ ast.decls[1].value.right.k \in {"IntExpr", "CastExpr"}

\* No diagnostic of a run is an error or a fatal.
Clean(run) ==
    \A i \in 1..Len(run.diags) : run.diags[i].level \notin {"error", "fatal"}

\* The name of the constant is bound in the module table to a ConstSymbol
\* that is not static.
ConstantBound ==
    /\ get_namesym(tabs, 1, ast.decls[1].name, TRUE) # 0
    /\ syms[get_namesym(tabs, 1, ast.decls[1].name, TRUE)].cls = "ConstSymbol"
    /\ ~syms[get_namesym(tabs, 1, ast.decls[1].name, TRUE)].is_static

\* GetExpressionType of an integer literal is the IntType of its width.
LiteralTyped(expr) ==
    GetExpressionType(tabs, syms, 1, expr) = IntType(FALSE, expr.type.v)

\* C18: on `set c: int := 2 + 3;` the builder succeeds; the Checker passes
\* both passes with success true and without an error or fatal diagnostic;
\* afterwards c is bound in the module table to a ConstSymbol that is not
\* static; the type computed for each literal is the IntType of its width.
C18_ConstantSumPasses ==
    ConstantSum =>
        /\ pc # "build raised"
        /\ pc = "built" => bld.success
        /\ pc \in {"built", "pass A", "pass B", "checked"} =>
                /\ ConstantBound
                /\ LiteralTyped(ast.decls[1].value.left)
        /\ Len(hist) >= 1 => Passed(hist[1]) /\ Clean(hist[1])

(***************************************************************************)
(* C19: assignment of a wider integer to an int                            *)
(***************************************************************************)
\* The assignments `x := e` of the module whose left side is a name of
\* type int and whose right side is of type long, the literal 1l or a name
\* declared long, as it is or cast to int.
WideAssigns ==
    {u \in NodesIn(ast, 1) :
        /\ u.node.k = "AssignExpr"
        /\ u.node.lhs.k = "NameExpr"
        /\ GetExpressionType(tabs, syms, u.scope, u.node.lhs) = TInt
        /\ \/ /\ u.node.rhs.k = "IntExpr"
              /\ u.node.rhs.type = PyStr("long")
           \/ /\ u.node.rhs.k = "CastExpr"
              /\ u.node.rhs.cast_type = TInt
           \/ /\ u.node.rhs.k = "NameExpr"
              /\ GetExpressionType(tabs, syms, u.scope, u.node.rhs) = TLong}

\* The module declares x and y and holds one function, whose body is an
\* assignment of a long to the int x.
OneWideAssign ==
    /\ WideAssigns # {}
    /\ \A i \in 1..Len(ast.decls) :
            \/ ast.decls[i].k = "VarDecl" /\ ast.decls[i].value.k = "None"
            \/ /\ ast.decls[i].k = "FuncDecl"
               /\ ast.decls[i].body.k = "CompoundStmt"
               /\ Len(ast.decls[i].body.stmts) = 1
               /\ ast.decls[i].body.stmts[1].k = "ExprStmt"
               /\ \E u \in WideAssigns :
                        u.node = ast.decls[i].body.stmts[1].expr
    /\ Cardinality({i \in 1..Len(ast.decls) : ast.decls[i].k = "FuncDecl"}) = 1

\* C19: the Checker does not fail on an assignment of a long to an int;
\* when it has finished, a warning was emitted and the right side of the
\* assignment is CastExpr(rhs, int, signed = false).
C19_WideAssignDowngraded ==
    (Len(hist) >= 1 /\ OneWideAssign) =>
        /\ Passed(hist[1])
        /\ \E i \in 1..Len(hist[1].diags) : hist[1].diags[i].level = "warn"
        /\ \A u \in NodesIn(hist[1].ast, 1) :
                u.node.k = "AssignExpr" =>
                    /\ u.node.rhs.k = "CastExpr"
                    /\ u.node.rhs.cast_type = TInt
                    /\ ~u.node.rhs.signed

(***************************************************************************)
(* C20: the size of an array declared without one                          *)
(***************************************************************************)
\* The module is one declaration of an array of int with an initialiser of
\* kind array or str.
OneArray ==
    /\ Len(ast.decls) = 1
    /\ ast.decls[1].k = "VarDecl"
    /\ ast.decls[1].type.k = "ArrayType"
    /\ ast.decls[1].value.k = "ComplexExpr"
    /\ ast.decls[1].value.type \in {"array", "str"}

\* C20: the check of `let a: [] int := { ... };` and of
\* `let a: [n] int := { ... };` succeeds, and afterwards the size of the
\* declared type is an integer literal: the number of elements of the
\* initialiser where none was declared, the declared one otherwise.
C20_ArraySizeFilled ==
    (OneArray /\ Len(hist) >= 1) =>
        /\ Passed(hist[1])
        /\ hist[1].ast.decls[1].type.size.k = "IntExpr"
        /\ hist[1].ast.decls[1].type.size.value \in
                {Len(ast.decls[1].value.value), 3}

(***************************************************************************)
(* nslex: the lexer                                                        *)
(***************************************************************************)
\* A str is the sequence of its characters; a character is a string of
\* length one. The characters 32 to 95 and 97 to 126, in code order.
Printable ==
    <<" ", "!", "\"", "#", "$", "%", "&", "'", "(", ")", "*", "+", ",",
      "-", ".", "/", "0", "1", "2", "3", "4", "5", "6", "7", "8", "9", ":",
      ";", "<", "=", ">", "?", "@", "A", "B", "C", "D", "E", "F", "G", "H",
      "I", "J", "K", "L", "M", "N", "O", "P", "Q", "R", "S", "T", "U", "V",
      "W", "X", "Y", "Z", "[", "\\", "]", "^", "_">>

PrintableHigh ==
    <<"a", "b", "c", "d", "e", "f", "g", "h", "i", "j", "k", "l", "m", "n",
      "o", "p", "q", "r", "s", "t", "u", "v", "w", "x", "y", "z", "{", "|",
      "}", "~">>

CharSet ==
    {Printable[i] : i \in 1..Len(Printable)}
    \cup {PrintableHigh[i] : i \in 1..Len(PrintableHigh)}
    \cup {"\t", "\n", "\r"}

\* ord() of a character
Ord ==
    [ch \in CharSet |->
        CASE ch = "\t" -> 9
          [] ch = "\n" -> 10
          [] ch = "\r" -> 13
          [] \E i \in 1..Len(Printable) : Printable[i] = ch ->
                31 + CHOOSE i \in 1..Len(Printable) : Printable[i] = ch
          [] OTHER ->
                96 + CHOOSE i \in 1..Len(PrintableHigh) :
                                PrintableHigh[i] = ch]

\* chr() of a code
Chr(code) == CHOOSE ch \in CharSet : Ord[ch] = code

\* str.isspace, str.isdigit, str.isalpha, str.isalnum, str.lower and
\* str.upper on a character (every character here is ASCII)
isspace(ch) == ch \in {" ", "\t", "\n", "\r"}

isdigit(ch) == Ord[ch] \in 48..57

isalpha(ch) == Ord[ch] \in (65..90) \cup (97..122)

isalnum(ch) == isalpha(ch) \/ isdigit(ch)

lower(ch) == IF Ord[ch] \in 65..90 THEN Chr(Ord[ch] + 32) ELSE ch

upper(ch) == IF Ord[ch] \in 97..122 THEN Chr(Ord[ch] - 32) ELSE ch

\* nslex.Keywords, each word as the sequence of its characters.
Keywords ==
    {<<"s", "e", "t">>, <<"l", "e", "t">>, <<"f", "u", "n", "c">>,
     <<"s", "t", "r", "u", "c", "t">>, <<"u", "n", "i", "o", "n">>,
     <<"u", "s", "i", "n", "g">>, <<"s", "t", "a", "t", "i", "c">>,
     <<"i", "n", "l", "i", "n", "e">>, <<"v", "o", "i", "d">>,
     <<"i", "n", "t">>, <<"l", "o", "n", "g">>, <<"q", "u", "a", "d">>,
     <<"v", "o", "l", "a", "t", "i", "l", "e">>, <<"i", "f">>,
     <<"e", "l", "s", "e">>, <<"f", "o", "r">>,
     <<"w", "h", "i", "l", "e">>, <<"b", "r", "e", "a", "k">>,
     <<"b", "r", "e", "a", "k", "i", "f">>,
     <<"c", "o", "n", "t", "i", "n", "u", "e">>}

\* nslex.Punctuators.
Punctuators ==
    {<<"(">>, <<")">>, <<"{">>, <<"}">>, <<"[">>, <<"]">>, <<".">>,
     <<",">>, <<"-", ">">>, <<":">>, <<";">>, <<"?">>, <<"a", "s">>,
     <<"$">>, <<".", ".", ".">>, <<"s", "z", "e", "x", "p", "r">>,
     <<"s", "z", "t", "y", "p", "e">>, <<"+">>, <<"-">>, <<"*">>, <<"/">>,
     <<"/", "$">>, <<"%">>, <<"%", "$">>, <<"<", "<">>, <<">", ">">>,
     <<">", ">", "$">>, <<"=", "=">>, <<"!", "=">>, <<"<">>, <<">">>,
     <<"<", "=">>, <<">", "=">>, <<"<", "$">>, <<">", "$">>,
     <<"<", "=", "$">>, <<">", "=", "$">>, <<"!">>, <<"&", "&">>,
     <<"|", "|">>, <<"~">>, <<"&">>, <<"|">>, <<"^">>, <<":", "=">>,
     <<"+", "=">>, <<"-", "=">>, <<"*", "=">>, <<"/", "=">>,
     <<"/", "%", "=">>, <<"%", "$", "=">>, <<"<", "<", "=">>,
     <<">", ">", "=">>, <<">", ">", "$", "=">>, <<"&", "=">>, <<"|", "=">>,
     <<"^", "=">>}

\* nstypes.CFG.BITS_PER_WORD of the 16-bit target
BITS_PER_WORD == 16

L_UNKNOWN == 1

L_INVALIDINTPREFIX == 10

L_INVALIDINTSUFFIX == 11

L_CANNOTTRUNCATE == 12

L_ALPHAAFTERNUM == 13

L_MISSINGQUOTE == 20

L_INVALIDUNICODECHAR == 21

L_INVALIDSTRINGCHAR == 22

L_EOF == 99

\* The value of a Keyword, Name, Punctuator or Comment token is a str, of
\* an Integer token the pair of the value and the type, of a String token
\* the list of its bytes, of EOF None.
Token(type, value, start_pos, end_pos) ==
    [type |-> type, value |-> value, start_pos |-> start_pos,
     end_pos |-> end_pos]

\* The str whose characters are those of the sequence.
RECURSIVE Str(_)
Str(chars) == IF chars = <<>> THEN "" ELSE chars[1] \o Str(Tail(chars))

\* Lexer.__init__; the diagnostics of the logger are kept in log.
NewLexer ==
    [srcpos |-> 0, curln |-> 1, curcol |-> 0, success |-> TRUE, log |-> <<>>]

\* _snapshot
snapshot(lx) == <<lx.curln, lx.curcol>>

\* A local name that no assignment has bound yet.
Unbound == <<>>

\* What a method of the Lexer leaves: the lexer, the token returned (None
\* when it returns None or raises) and the class of the exception raised.
LRet(lx, tok) == [lx |-> lx, tok |-> tok, exc |-> ""]

\* _error
LError(lx, code) ==
    [lx EXCEPT !.success = FALSE,
               !.log = Append(@, [level |-> "error", code |-> code])]

\* _fatal
LFatal(lx, code) ==
    [lx |-> [lx EXCEPT !.success = FALSE,
                       !.log = Append(@, [level |-> "fatal", code |-> code])],
     tok |-> None, exc |-> "Exception"]

\* An exception that is not raised by _fatal.
LRaise(lx, cls) == [lx |-> lx, tok |-> None, exc |-> cls]

\* logger.warn
LWarn(lx) == [lx EXCEPT !.log = Append(@, [level |-> "warn", code |-> 0])]

\* _peek: source[srcpos + ahead : srcpos + ahead + num]
peek(src, lx, num, ahead) ==
    SubSeq(src, lx.srcpos + ahead + 1,
           IF lx.srcpos + ahead + num < Len(src)
           THEN lx.srcpos + ahead + num ELSE Len(src))

\* _advance: the lexer it leaves
RECURSIVE advance(_, _, _)
advance(src, lx, num) ==
    IF num > 0 /\ lx.srcpos < Len(src)
    THEN advance(src,
                 [lx EXCEPT
                    !.curln = IF src[lx.srcpos + 1] = "\n" THEN @ + 1 ELSE @,
                    !.curcol = IF src[lx.srcpos + 1] = "\n" THEN 0 ELSE @ + 1,
                    !.srcpos = @ + 1],
                 num - 1)
    ELSE lx

\* _advance: the value it returns, num == 0 when its loop ends
advance_ret(src, lx, num) == lx.srcpos + num <= Len(src)

\* _skipws
RECURSIVE skipws(_, _)
skipws(src, lx) ==
    IF peek(src, lx, 1, 0) # <<>> /\ isspace(peek(src, lx, 1, 0)[1])
    THEN skipws(src, advance(src, lx, 1))
    ELSE lx

\* The digits of the bases up to 16, as _readInt lists them.
HexDigits ==
    <<"0", "1", "2", "3", "4", "5", "6", "7", "8", "9", "A", "B", "C", "D",
      "E", "F">>

\* peek.upper() in "0123456789ABCDEF"[0:base]
IsDigitOf(ch, base) == \E i \in 1..base : HexDigits[i] = upper(ch)

\* int(digits, base=base)
RECURSIVE IntOf(_, _)
IntOf(digits, base) ==
    IF digits = <<>> THEN 0
    ELSE IntOf(SubSeq(digits, 1, Len(digits) - 1), base) * base
         + (CHOOSE i \in 1..base :
                HexDigits[i] = upper(digits[Len(digits)])) - 1

\* value & maximum-1, where maximum = 1 << INT_SIZES[int_type] *
\* BITS_PER_WORD; a value below 2^31 is its own remainder for the types of
\* two words and more.
Truncate(value, int_type) ==
    IF INT_SIZES(int_type) * BITS_PER_WORD >= 31 THEN value
    ELSE value % (2 ^ (INT_SIZES(int_type) * BITS_PER_WORD))

\* _readIntSuffix: the lexer, the type, the position of the suffix (None
\* without one) and the exception raised.
readIntSuffix(src, lx) ==
    LET p == peek(src, lx, 1, 0) IN
    IF p # <<>> /\ isalpha(p[1])
    THEN IF lower(p[1]) \in {"i", "l", "q"}
         THEN [lx |-> advance(src, lx, 1),
               int_type |-> CASE lower(p[1]) = "i" -> "int"
                              [] lower(p[1]) = "l" -> "long"
                              [] lower(p[1]) = "q" -> "quad",
               pos |-> snapshot(lx), exc |-> ""]
         ELSE [lx |-> LFatal(lx, L_INVALIDINTSUFFIX).lx, int_type |-> "int",
               pos |-> None, exc |-> "Exception"]
    ELSE [lx |-> lx, int_type |-> "int", pos |-> None, exc |-> ""]

\* _readInt, the loop over the underscores that follow a digit
RECURSIVE readUnderscores(_, _, _)
readUnderscores(src, lx, end_pos) ==
    IF peek(src, lx, 1, 0) = <<"_">>
    THEN readUnderscores(src, advance(src, lx, 1), snapshot(lx))
    ELSE [lx |-> lx, end_pos |-> end_pos]

\* _readInt, the loop over the digits
RECURSIVE readDigits(_, _, _, _, _)
readDigits(src, lx, base, num_string, end_pos) ==
    LET p == peek(src, lx, 1, 0) IN
    IF p # <<>> /\ IsDigitOf(p[1], base)
    THEN LET u == readUnderscores(src, advance(src, lx, 1), snapshot(lx)) IN
         readDigits(src, u.lx, base, num_string \o p, u.end_pos)
    ELSE [lx |-> lx, num_string |-> num_string, end_pos |-> end_pos]

\* The end of _readInt and of the character literal: the suffix, the
\* letter that may not follow, the truncation and the token.
IntegerToken(src, lx, value, can_truncate, start_pos, end_pos) ==
    LET suf == readIntSuffix(src, lx)
        p == peek(src, suf.lx, 1, 0)
        lx1 == IF p # <<>> /\ (isalpha(p[1]) \/ p[1] = "_")
               THEN LError(suf.lx, L_ALPHAAFTERNUM) ELSE suf.lx
    IN IF suf.exc # "" THEN [lx |-> suf.lx, tok |-> None, exc |-> suf.exc]
       ELSE IF value # Truncate(value, suf.int_type) /\ ~can_truncate
       THEN LFatal(lx1, L_CANNOTTRUNCATE)
       ELSE LRet(IF value # Truncate(value, suf.int_type)
                 THEN LWarn(LWarn(lx1)) ELSE lx1,
                 Token("INTEGER",
                       <<Truncate(value, suf.int_type), suf.int_type>>,
                       start_pos,
                       IF suf.pos # None THEN suf.pos ELSE end_pos))

\* _readInt
readInt(src, lx) ==
    LET p == peek(src, lx, 1, 1)
        prefixed == /\ peek(src, lx, 1, 0) = <<"0">>
                    /\ p # <<>>
                    /\ isalpha(lower(p[1]))
        base == IF ~prefixed THEN 10
                ELSE CASE lower(p[1]) = "b" -> 2
                       [] lower(p[1]) = "o" -> 8
                       [] lower(p[1]) = "x" -> 16
                       [] OTHER -> 0
        d == readDigits(src, IF prefixed THEN advance(src, lx, 2) ELSE lx,
                        base, <<>>, Unbound)
    IN IF base = 0 THEN LFatal(advance(src, lx, 1), L_INVALIDINTPREFIX)
       ELSE IF d.num_string = <<>> THEN LFatal(d.lx, L_EOF)
       ELSE IntegerToken(src, d.lx, IntOf(d.num_string, base), TRUE,
                         snapshot(lx), d.end_pos)

\* int.from_bytes(bytes(chr(val), encoding="utf8"), "big")
Utf8Int(val) ==
    CASE val < 128 -> val
      [] val \in 128..2047 -> (192 + val \div 64) * 256 + 128 + (val % 64)
      [] val \in 2048..65535 ->
            (224 + val \div 4096) * 65536
            + (128 + ((val \div 64) % 64)) * 256 + 128 + (val % 64)
      [] OTHER ->
            (240 + val \div 262144) * 16777216
            + (128 + ((val \div 4096) % 64)) * 65536
            + (128 + ((val \div 64) % 64)) * 256 + 128 + (val % 64)

\* chr(val) or its encoding raises ValueError: no such code point, or a
\* surrogate.
NoUtf8(val) == val > 1114111 \/ val \in 55296..57343

\* The number of leading characters of text, at most most, that are
\* digits of the base.
RECURSIVE DigitRun(_, _, _)
DigitRun(text, base, most) ==
    IF most > 0 /\ text # <<>> /\ IsDigitOf(text[1], base)
    THEN 1 + DigitRun(Tail(text), base, most - 1)
    ELSE 0

\* What _readCharAsInt leaves: the lexer, the value, the flag returned with
\* it and the exception raised.
CharRet(lx, val, flag) == [lx |-> lx, val |-> val, flag |-> flag, exc |-> ""]

CharFatal(lx, code) ==
    [lx |-> LFatal(lx, code).lx, val |-> 0, flag |-> FALSE,
     exc |-> "Exception"]

\* The escapes of one character and their values.
Escapes ==
    [a |-> 7, b |-> 8, f |-> 12, n |-> 10, r |-> 13, t |-> 9, v |-> 11]

\* _readCharAsInt after a backslash: lx1 is the lexer behind the backslash
EscapeAsInt(src, lx1) ==
    LET ch == peek(src, lx1, 1, 0)
        large_peek == peek(src, lx1, 10, 0)
        lx2 == advance(src, lx1, 1)
        octal == DigitRun(large_peek, 8, 3)
        hex == IF ch = <<"x">> THEN DigitRun(Tail(large_peek), 16, 8) ELSE 0
        after == peek(src, advance(src, lx2, hex), 1, 0)
    IN IF ch # <<>> /\ ch[1] \in DOMAIN Escapes
       THEN CharRet(lx2, Escapes[ch[1]], TRUE)
       ELSE IF ch \in {<<"\\">>, <<"'">>, <<"\"">>}
       THEN CharRet(lx2, Ord[ch[1]], TRUE)
       ELSE IF ch = <<"0">> THEN CharRet(lx2, 0, TRUE)
       ELSE IF octal >= 1
       THEN CharRet(advance(src, lx2, octal - 1),
                    IntOf(SubSeq(large_peek, 1, octal), 8) % 256, TRUE)
       ELSE IF hex >= 1
       THEN CharRet(IF /\ after # <<>>
                       /\ Ord[after[1]] \in (48..57) \cup (65..102)
                    THEN LWarn(advance(src, lx2, hex))
                    ELSE advance(src, lx2, hex),
                    IntOf(SubSeq(large_peek, 2, hex + 1), 16), TRUE)
       ELSE IF ch = <<"u">> /\ DigitRun(Tail(large_peek), 16, 4) = 4
       THEN IF NoUtf8(IntOf(SubSeq(large_peek, 2, 5), 16))
            THEN CharFatal(advance(src, lx2, 4), L_INVALIDUNICODECHAR)
            ELSE CharRet(advance(src, lx2, 4),
                         Utf8Int(IntOf(SubSeq(large_peek, 2, 5), 16)), FALSE)
       ELSE IF /\ peek(src, lx2, 1, 0) = <<"u">>
               /\ DigitRun(peek(src, lx2, 8, 1), 16, 8) = 8
       THEN IF NoUtf8(IntOf(peek(src, lx2, 8, 1), 16))
            THEN CharFatal(advance(src, lx2, 8), L_INVALIDUNICODECHAR)
            ELSE CharRet(advance(src, lx2, 8),
                         Utf8Int(IntOf(peek(src, lx2, 8, 1), 16)), FALSE)
       ELSE CharRet(LWarn(lx2),
                    IF ch = <<>> THEN 0 ELSE Utf8Int(Ord[ch[1]]), FALSE)

\* _readCharAsInt
readCharAsInt(src, lx) ==
    LET char == peek(src, lx, 1, 0) IN
    CASE char = <<>> -> CharFatal(lx, L_EOF)
      [] char = <<"\\">> -> EscapeAsInt(src, advance(src, lx, 1))
      [] OTHER -> CharRet(advance(src, lx, 1), Utf8Int(Ord[char[1]]), FALSE)

\* next_token, the branch of a character literal
readCharLiteral(src, lx) ==
    LET c == readCharAsInt(src, advance(src, lx, 1)) IN
    IF c.exc # "" THEN [lx |-> c.lx, tok |-> None, exc |-> c.exc]
    ELSE IF peek(src, c.lx, 1, 0) # <<"'">> THEN LFatal(c.lx, L_MISSINGQUOTE)
    ELSE IntegerToken(src, advance(src, c.lx, 1), c.val, c.flag,
                      snapshot(lx), snapshot(c.lx))

\* _readString.int_to_smallest_bytes: ceil(log(val) / log(256)), the least
\* length whose power of 256 is not below val
RECURSIVE ByteLength(_, _)
ByteLength(val, length) ==
    IF 256 ^ length >= val THEN length ELSE ByteLength(val, length + 1)

\* _readString.int_to_smallest_bytes: log(0) raises ValueError, to_bytes
\* raises OverflowError for a value that does not fit in the length.
int_to_smallest_bytes(val) ==
    CASE val = 0 -> [bytes |-> <<>>, exc |-> "ValueError"]
      [] val > 0 /\ val >= 256 ^ ByteLength(val, 0) ->
            [bytes |-> <<>>, exc |-> "OverflowError"]
      [] OTHER ->
            [bytes |-> [i \in 1..ByteLength(val, 0) |->
                            (val \div (256 ^ (ByteLength(val, 0) - i))) % 256],
             exc |-> ""]

\* _readString, the loop over the characters of one literal
RECURSIVE readStringChars(_, _, _)
readStringChars(src, lx, string) ==
    IF peek(src, lx, 1, 0) = <<"\"">>
    THEN [lx |-> lx, string |-> string, exc |-> ""]
    ELSE LET c == readCharAsInt(src, lx) IN
         IF c.exc # "" THEN [lx |-> c.lx, string |-> string, exc |-> c.exc]
         ELSE IF c.flag /\ c.val > 127
         THEN [lx |-> LFatal(c.lx, L_INVALIDSTRINGCHAR).lx,
               string |-> string, exc |-> "Exception"]
         ELSE IF int_to_smallest_bytes(c.val).exc # ""
         THEN [lx |-> c.lx, string |-> string,
               exc |-> int_to_smallest_bytes(c.val).exc]
         ELSE readStringChars(src, c.lx,
                              string \o int_to_smallest_bytes(c.val).bytes)

\* _readString, the loop over adjacent literals
RECURSIVE readLiterals(_, _, _, _, _)
readLiterals(src, lx, string, start_pos, end_pos) ==
    IF peek(src, lx, 1, 0) = <<"\"">>
    THEN LET s == readStringChars(src, advance(src, lx, 1), string) IN
         IF s.exc # "" THEN [lx |-> s.lx, tok |-> None, exc |-> s.exc]
         ELSE readLiterals(src, skipws(src, advance(src, s.lx, 1)),
                           s.string, start_pos, snapshot(s.lx))
    ELSE LRet(lx, Token("STRING", Append(string, 0), start_pos, end_pos))

\* _readString
readString(src, lx) ==
    IF peek(src, lx, 1, 0) # <<"\"">> THEN LFatal(lx, L_UNKNOWN)
    ELSE readLiterals(src, lx, <<>>, snapshot(lx), snapshot(lx))

\* _tryReadPunc: the longest punctuator the source continues with
tryReadPunc(src, lx) ==
    LET punct_matches == {punct \in Punctuators :
                            punct = peek(src, lx, Len(punct), 0)}
        punct == CHOOSE p \in punct_matches :
                    \A other \in punct_matches : Len(other) <= Len(p)
    IN IF punct_matches = {} THEN LRet(lx, None)
       ELSE LRet(advance(src, lx, Len(punct)),
                 Token("PUNC", Str(punct), snapshot(lx),
                       snapshot(advance(src, lx, Len(punct) - 1))))

\* _tryReadKeywordOrName, the loop over the characters of the name
RECURSIVE readName(_, _, _, _)
readName(src, lx, name, end_pos) ==
    LET p == peek(src, lx, 1, 0) IN
    IF p # <<>> /\ (p[1] = "_" \/ isalnum(p[1]))
    THEN readName(src, advance(src, lx, 1), name \o p, snapshot(lx))
    ELSE [lx |-> lx, name |-> name, end_pos |-> end_pos]

\* _tryReadKeywordOrName
tryReadKeywordOrName(src, lx) ==
    LET p == peek(src, lx, 1, 0)
        n == readName(src, lx, <<>>, Unbound)
    IN IF p # <<>> /\ ~(p[1] = "_" \/ isalpha(p[1])) THEN LRet(lx, None)
       ELSE LRet(n.lx,
                 Token(IF n.name \in Keywords THEN "KEYWORD" ELSE "NAME",
                       Str(n.name), snapshot(lx), n.end_pos))

\* next_token, the loop over the characters of a comment
RECURSIVE readComment(_, _, _, _, _)
readComment(src, lx, value, start_pos, end_pos) ==
    IF peek(src, lx, 2, 0) # <<"*", "/">>
    THEN IF advance_ret(src, lx, 1)
         THEN readComment(src, advance(src, lx, 1),
                          value \o peek(src, lx, 1, 0), start_pos,
                          snapshot(lx))
         ELSE LFatal(lx, L_EOF)
    ELSE IF end_pos = Unbound
    THEN LRaise(advance(src, lx, 2), "UnboundLocalError")
    ELSE LRet(advance(src, lx, 2),
              Token("COMMENT", Str(value), start_pos, end_pos))

\* next_token
RECURSIVE next_token(_, _)
next_token(src, lx) ==
    LET p == peek(src, lx, 1, 0) IN
    IF p = <<>>
    THEN LRet(lx, Token("EOF", None, snapshot(lx), snapshot(lx)))
    ELSE IF isspace(p[1]) THEN next_token(src, skipws(src, lx))
    ELSE IF peek(src, lx, 2, 0) = <<"/", "*">>
    THEN readComment(src, advance(src, lx, 2), <<>>,
                     snapshot(advance(src, lx, 2)), Unbound)
    ELSE IF isdigit(p[1]) THEN readInt(src, lx)
    ELSE IF p = <<"'">> THEN readCharLiteral(src, lx)
    ELSE IF p = <<"\"">> THEN readString(src, lx)
    ELSE IF tryReadPunc(src, lx).tok # None THEN tryReadPunc(src, lx)
    ELSE IF tryReadKeywordOrName(src, lx).tok # None
    THEN tryReadKeywordOrName(src, lx)
    ELSE LFatal(lx, L_UNKNOWN)

\* The characters the sources are written in: white space, the characters
\* of comments and of the punctuators / * = /= *= ==, digits, the letters
\* of `if`, the two quotes and the backslash.
Chars == {" ", "\n", "/", "*", "=", "0", "1", "i", "f", "'", "\"", "\\"}

MaxLen == 4

\* Lexer(source) on every source of at most MaxLen characters, before
\* lex_all has asked for a token.
LexInit ==
    /\ source \in TagSeqs(Chars, MaxLen)
    /\ lexer = NewLexer
    /\ tokens = <<>>
    /\ lpc = "lex_all"
    /\ parsed = 0
    /\ TablesIdle
    /\ TypesIdle
    /\ CompileIdle
    /\ DriverIdle

\* lex_all: a turn of its loop in which next_token returns a token that is
\* not EOF.
LexToken ==
    /\ lpc = "lex_all"
    /\ \E r \in {next_token(source, lexer)} :
        /\ r.exc = ""
        /\ r.tok.type # "EOF"
        /\ lexer' = r.lx
        /\ tokens' = Append(tokens, r.tok)
    /\ UNCHANGED <<source, lpc, parsed>>
    /\ UNCHANGED <<driverVars, tableVars, typeVars, compileVars>>

\* lex_all: the turn in which next_token returns EOF, and the return.
LexEOF ==
    /\ lpc = "lex_all"
    /\ \E r \in {next_token(source, lexer)} :
        /\ r.exc = ""
        /\ r.tok.type = "EOF"
        /\ lexer' = r.lx
        /\ tokens' = Append(tokens, r.tok)
    /\ lpc' = "returned"
    /\ UNCHANGED <<source, parsed>>
    /\ UNCHANGED <<driverVars, tableVars, typeVars, compileVars>>

\* lex_all: next_token raises, and the exception leaves lex_all.
LexRaise ==
    /\ lpc = "lex_all"
    /\ \E r \in {next_token(source, lexer)} :
        /\ r.exc # ""
        /\ lexer' = r.lx
        /\ lpc' = r.exc
    /\ UNCHANGED <<source, tokens, parsed>>
    /\ UNCHANGED <<driverVars, tableVars, typeVars, compileVars>>

LexNext ==
    \/ LexToken
    \/ LexEOF
    \/ LexRaise

SpecLex == LexInit /\ [][LexNext]_vars

(***************************************************************************)
(* C15: lex_all ends, with a fatal error or with a token list              *)
(***************************************************************************)
\* lex_all has ended in one of the two ways: the exception of _fatal, with
\* success false and the fatal diagnostic logged last, or a token list
\* with one EOF token, the last one.
EndsWell ==
    /\ lpc \in {"lex_all", "returned", "Exception"}
    /\ lpc = "Exception" =>
            /\ ~lexer.success
            /\ lexer.log # <<>>
            /\ lexer.log[Len(lexer.log)].level = "fatal"
    /\ lpc = "returned" =>
            /\ tokens # <<>>
            /\ \A i \in 1..Len(tokens) :
                    tokens[i].type = "EOF" <=> i = Len(tokens)
    /\ lpc = "lex_all" =>
            /\ Len(tokens) <= lexer.srcpos
            /\ \A i \in 1..Len(tokens) : tokens[i].type # "EOF"
    /\ lexer.srcpos <= Len(source)

\* A call of next_token that returns a token other than EOF has moved
\* srcpos forward.
Advances ==
    (Len(tokens') > Len(tokens) /\ tokens'[Len(tokens')].type # "EOF") =>
        lexer'.srcpos > lexer.srcpos

\* C15: lex_all ends on every source, by the exception of a fatal error or
\* by returning a token list in which EOF occurs once, at the end; the
\* list never grows beyond the characters read, and every call of
\* next_token that returns a token other than EOF moves srcpos forward.
C15_LexAllEnds == []EndsWell /\ [][Advances]_vars

(***************************************************************************)
(* C16: the positions of the tokens                                        *)
(***************************************************************************)
\* (line, column) order
PosLeq(a, b) == a[1] < b[1] \/ (a[1] = b[1] /\ a[2] <= b[2])

\* The positions of the source: of each of its characters, and of its end.
Positions(src) ==
    {snapshot(advance(src, NewLexer, n)) : n \in 0..Len(src)}

Positioned(tok) ==
    /\ tok.start_pos \in Positions(source)
    /\ tok.end_pos \in Positions(source)
    /\ PosLeq(tok.start_pos, tok.end_pos)

\* C16: every token of every kind, an empty comment included, is produced
\* with a start_pos and an end_pos that are positions of the source, the
\* first not after the second; no token is lost to an unset position.
C16_TokensPositioned ==
    /\ lpc # "UnboundLocalError"
    /\ \A i \in 1..Len(tokens) : Positioned(tokens[i])

(***************************************************************************)
(* nsparse: the parser                                                     *)
(***************************************************************************)
\* lex_all, all its turns: the lexer, the tokens and the exception raised
RECURSIVE lex_all(_, _, _)
lex_all(src, lx, toks) ==
    LET Turn(r) ==
            IF r.exc # "" THEN [lx |-> r.lx, tokens |-> toks, exc |-> r.exc]
            ELSE IF r.tok.type = "EOF"
            THEN [lx |-> r.lx, tokens |-> Append(toks, r.tok), exc |-> ""]
            ELSE lex_all(src, r.lx, Append(toks, r.tok))
    IN Turn(next_token(src, lx))

P_EATWRONGTYPE == "P02"

P_EATWRONGVALUE == "P03"

P_FAILEDCHECK == "P04"

P_WRONGTOKEN == "P05"

P_MISSINGVALUE == "P10"

P_INVALID_MODIFIER == "P20"

P_INVALID_OPERATOR == "P30"

\* Parser.__init__
NewParser == [pos |-> 0, success |-> TRUE, log |-> <<>>]

\* What a method of the Parser leaves: the parser, the value returned and
\* the class of the exception raised.
PRet(ps, node) == [ps |-> ps, node |-> node, exc |-> ""]

\* Parser._error
PError(ps, code) ==
    [ps EXCEPT !.success = FALSE,
               !.log = Append(@, [level |-> "error", code |-> code])]

\* Parser._fatal
PFatal(ps, code) ==
    [ps |-> [ps EXCEPT !.success = FALSE,
                       !.log = Append(@, [level |-> "fatal", code |-> code])],
     node |-> None, exc |-> "Exception"]

PRaise(ps, cls) == [ps |-> ps, node |-> None, exc |-> cls]

\* A part of the grammar the sources below never enter: function bodies,
\* let and using declarations, func, struct and union types, string and
\* compound initialisers.
POutside(ps) == PRaise(ps, "outside")

\* The value of the token is a str.
HasStr(tok) == tok.type \in {"KEYWORD", "NAME", "PUNC", "COMMENT"}

\* Token.istype; values = {} stands for value = None
istype(tok, type, values) ==
    /\ tok.type = type
    /\ values # {} => HasStr(tok) /\ tok.value \in values

iskeyword(tok, values) == istype(tok, "KEYWORD", values)

ispunc(tok, values) == istype(tok, "PUNC", values)

\* The indices from lo to hi of the tokens _peek looks at.
Shown(toks, lo, hi, skip_comment) ==
    {i \in lo..hi : ~(skip_comment /\ toks[i].type = "COMMENT")}

\* Parser._peek: the index of the token it returns, 0 when it returns an
\* EOF token of its own. tokens[ahead:] of a list of n tokens starts at
\* ahead, or at n + ahead (at least 0) for a negative ahead.
peek_index(toks, ps, ahead, skip_comment) ==
    LET Pick(shown, n, first) ==
            IF first >= n THEN 0
            ELSE CHOOSE i \in shown :
                    Cardinality({j \in shown : j < i}) = first
        Counted(shown, n) ==
            Pick(shown, n,
                 IF ahead >= 0 THEN ahead
                 ELSE IF n + ahead > 0 THEN n + ahead ELSE 0)
        Sliced(shown) == Counted(shown, Cardinality(shown))
    IN Sliced(IF ahead < 0 THEN Shown(toks, 1, ps.pos, skip_comment)
              ELSE Shown(toks, ps.pos + 1, Len(toks), skip_comment))

\* Parser._peek
peek_token(toks, ps, ahead, skip_comment) ==
    LET Edge(tok) == Token("EOF", None, tok.start_pos, tok.start_pos)
        Peeked(i) ==
            IF i = 0
            THEN Edge(toks[IF ps.pos + ahead < 0 THEN 1 ELSE Len(toks)])
            ELSE toks[i]
    IN Peeked(peek_index(toks, ps, ahead, skip_comment))

\* The token _peek() returns, comments skipped.
cur_token(toks, ps) == peek_token(toks, ps, 0, TRUE)

\* Parser._snapshot
start_of(toks, ps) == cur_token(toks, ps).start_pos

\* The end of the token before the current one, _peek(-1).end_pos
end_of(toks, ps) == peek_token(toks, ps, -1, TRUE).end_pos

\* Parser._eat; "" stands for None. The loop over the passed comments
\* never ends on a token that is not in the list.
eat(toks, ps, token_type, token_value, skip_comment) ==
    LET Eaten(i, cur) ==
            IF token_type # "" /\ cur.type # token_type
            THEN PFatal(ps, P_EATWRONGTYPE)
            ELSE IF token_value # ""
                    /\ ~(HasStr(cur) /\ cur.value = token_value)
            THEN PFatal(ps, P_EATWRONGVALUE)
            ELSE IF i = 0 THEN PRaise(ps, "no return")
            ELSE PRet([ps EXCEPT !.pos = i], cur)
    IN Eaten(peek_index(toks, ps, 0, skip_comment),
             peek_token(toks, ps, 0, skip_comment))

\* The rest of a method after a call: an exception raised in the call
\* leaves the method.
Then(r, Rest(_)) == IF r.exc # "" THEN r ELSE Rest(r)

\* Parser._eat of punctuators one after the other
RECURSIVE eat_puncs(_, _, _)
eat_puncs(toks, ps, values) ==
    IF values = <<>> THEN PRet(ps, None)
    ELSE Then(eat(toks, ps, "PUNC", values[1], TRUE), LAMBDA e :
         eat_puncs(toks, e.ps, Tail(values)))

\* node.lineno, node.col_offset = start_pos and node.end_lineno,
\* node.end_col_offset = end_pos on a node; a node that was never given
\* its span has loc = NoLoc or no loc at all.
Located(node, start_pos, end_pos) ==
    [f \in DOMAIN node \cup {"loc"} |->
        IF f = "loc"
        THEN Span(start_pos[1], start_pos[2], end_pos[1], end_pos[2])
        ELSE node[f]]

LocOf(node) == IF "loc" \in DOMAIN node THEN node.loc ELSE NoLoc

\* An operator node: Add(), Eq(), UnaryMinus(), ...
OpNode(cls, loc) == [k |-> cls, loc |-> loc]

CommaExpr(exprs, loc) ==
    [k |-> "CommaExpr", exprs |-> exprs, symref |-> None, loc |-> loc]

\* The expression nodes of one operand, and the rest.
Expr1(cls, field, expr) ==
    [k |-> cls, symref |-> None, loc |-> NoLoc] @@ (field :> expr)

AccessExpr(record_expr, member_name) ==
    [k |-> "AccessExpr", record_expr |-> record_expr,
     member_name |-> member_name, symref |-> None, loc |-> NoLoc]

IndexExpr(array_expr, index_expr) ==
    [k |-> "IndexExpr", array_expr |-> array_expr,
     index_expr |-> index_expr, symref |-> None, loc |-> NoLoc]

CallExpr(func_expr, args) ==
    [k |-> "CallExpr", func_expr |-> func_expr, args |-> args,
     symref |-> None, loc |-> NoLoc]

TernaryExpr(cond_expr, true_expr, false_expr) ==
    [k |-> "TernaryExpr", cond_expr |-> cond_expr, true_expr |-> true_expr,
     false_expr |-> false_expr, symref |-> None, loc |-> NoLoc]

UnaryExpr(cls, op, expr) ==
    [k |-> cls, op |-> op, expr |-> expr, symref |-> None, loc |-> NoLoc]

\* is_op_unary, is_op_ucond, is_op_binary, is_op_bcond: the class of the
\* operator, "" for None
is_op_unary(op) ==
    CASE op = "+" -> "UnaryPlus"
      [] op = "-" -> "UnaryMinus"
      [] op = "~" -> "BitNot"
      [] OTHER -> ""

is_op_ucond(op) == IF op = "!" THEN "LogicalNot" ELSE ""

is_op_binary(op) ==
    CASE op = "+" -> "Add"
      [] op = "-" -> "Sub"
      [] op = "*" -> "Mult"
      [] op = "/" -> "UDiv"
      [] op = "/$" -> "SDiv"
      [] op = "%" -> "UMod"
      [] op = "%$" -> "SMod"
      [] op = "<<" -> "ShLogLeft"
      [] op = ">>" -> "ShLogRight"
      [] op = ">>$" -> "ShArRight"
      [] op = "&" -> "BitAnd"
      [] op = "^" -> "BitXor"
      [] op = "|" -> "BitOr"
      [] OTHER -> ""

is_op_bcond(op) ==
    CASE op = "&&" -> "LogicalAnd"
      [] op = "||" -> "LogicalOr"
      [] op = "==" -> "Eq"
      [] op = "!=" -> "NotEq"
      [] op \in {"<", ">"} -> "ULt"
      [] op \in {"<=", ">="} -> "ULtE"
      [] op \in {"<$", ">$"} -> "SLt"
      [] op \in {"<=$", ">=$"} -> "SLtE"
      [] OTHER -> ""

\* get_assign_aug: is_op_binary(op[:-1]) of an op that ends in "="
get_assign_aug(op) ==
    LET augs == {b \in {"+", "-", "*", "/", "/$", "%", "%$", "<<", ">>",
                        ">>$", "&", "^", "|"} : b \o "=" = op}
    IN IF augs = {} THEN "" ELSE is_op_binary(CHOOSE b \in augs : TRUE)

\* is_op_assign
is_op_assign(op) == op = ":=" \/ get_assign_aug(op) # ""

\* __get_postfix_prec, __get_prefix_prec of the value of a token; 0 stands
\* for None
get_postfix_prec(tok) ==
    IF HasStr(tok) /\ tok.value \in {"as", "->", ".", "[", "("} THEN 27
    ELSE 0

get_prefix_prec(tok) ==
    IF HasStr(tok) /\ tok.value \in {"&", "*", "!", "~", "+", "-"} THEN 25
    ELSE 0

\* A table without the level of * / /$ % %$: they are given the numbers of
\* + and -.
FlatInfixPrec(op) ==
    CASE (op = ":=" \/ get_assign_aug(op) # "") -> <<2, 1>>
      [] op = "?" -> <<4, 3>>
      [] op = "||" -> <<5, 6>>
      [] op = "&&" -> <<7, 8>>
      [] op = "|" -> <<9, 10>>
      [] op = "^" -> <<11, 12>>
      [] op = "&" -> <<13, 14>>
      [] op \in {"==", "!="} -> <<15, 16>>
      [] op \in {"<", "<=", "<$", "<=$", ">", ">=", ">$", ">=$"} ->
            <<17, 18>>
      [] op \in {"<<", ">>", ">>$"} -> <<19, 20>>
      [] op \in {"+", "-", "*", "/", "/$", "%", "%$"} -> <<21, 22>>
      [] OTHER -> <<0, 0>>

\* __get_infix_prec of a value that is a str: <<left, right>>, <<0, 0>>
\* for (None, None)
get_infix_prec(op) ==
    CASE is_op_assign(op) -> <<2, 1>>
      [] op = "?" -> <<4, 3>>
      [] op = "||" -> <<5, 6>>
      [] op = "&&" -> <<7, 8>>
      [] op = "|" -> <<9, 10>>
      [] op = "^" -> <<11, 12>>
      [] op = "&" -> <<13, 14>>
      [] op \in {"==", "!="} -> <<15, 16>>
      [] op \in {"<", "<=", "<$", "<=$", ">", ">=", ">$", ">=$"} ->
            <<17, 18>>
      [] op \in {"<<", ">>", ">>$"} -> <<19, 20>>
      [] op \in {"+", "-"} -> <<21, 22>>
      [] op \in {"*", "/", "/$", "%", "%$"} -> <<23, 24>>
      [] OTHER -> <<0, 0>>

\* The call of a method of the Parser by its name, with the arguments it
\* takes after the tokens and the parser; the methods of the grammar call
\* one another through it.
RECURSIVE Call(_, _, _, _)


\* can_parse_type
can_parse_type(toks, ps) ==
    LET Can(token) ==
            \/ iskeyword(token, {"void", "int", "long", "quad", "func",
                                 "struct", "union"})
            \/ ispunc(token, {"*", "["})
            \/ token.type = "NAME"
    IN Can(cur_token(toks, ps))

\* can_parse_atom
can_parse_atom(toks, ps) ==
    LET Can(token) ==
            \/ iskeyword(token, {"szexpr", "sztype"})
            \/ ispunc(token, {"("})
            \/ token.type \in {"STRING", "INTEGER", "NAME"}
    IN Can(cur_token(toks, ps))

\* can_parse_s_expr
can_parse_s_expr(toks, ps) ==
    LET Can(token) ==
            /\ token.type = "PUNC"
            /\ \/ is_op_unary(token.value) # ""
               \/ is_op_ucond(token.value) # ""
               \/ token.value \in {"*", "&"}
    IN can_parse_atom(toks, ps) \/ Can(cur_token(toks, ps))

\* The end of a method that places the node it has built: from start_pos
\* to the end of the last token eaten.
Placed(toks, r, node, start_pos) ==
    PRet(r.ps, Located(node, start_pos, end_of(toks, r.ps)))

\* parse_type, after the token that tells the type was eaten as e.node
TypeAfter(toks, e, is_volatile, start_pos) ==
    LET Kind(token) ==
        CASE iskeyword(token, {"void"}) ->
                Placed(toks,
                       [e EXCEPT !.ps = IF is_volatile
                                        THEN PError(e.ps, P_INVALID_MODIFIER)
                                        ELSE e.ps],
                       VoidType(FALSE), start_pos)
          [] iskeyword(token, {"int", "long", "quad"}) ->
                Placed(toks, e, IntType(is_volatile, token.value), start_pos)
          [] iskeyword(token, {"func", "struct", "union"}) -> POutside(e.ps)
          [] ispunc(token, {"*"}) ->
                Then(Call("parse_type", toks, e.ps, None), LAMBDA inner :
                Placed(toks, inner, ArrayType(is_volatile, inner.node, None),
                       start_pos))
          [] ispunc(token, {"["}) ->
                Then(IF ispunc(cur_token(toks, e.ps), {"]"})
                     THEN PRet(e.ps, None)
                     ELSE IF can_parse_s_expr(toks, e.ps)
                     THEN Call("parse_expr_inner", toks, e.ps, 3)
                     ELSE PFatal(e.ps, P_WRONGTOKEN), LAMBDA size :
                Then(eat(toks, size.ps, "PUNC", "]", TRUE), LAMBDA close :
                Then(Call("parse_type", toks, close.ps, None), LAMBDA inner :
                Placed(toks, inner,
                       ArrayType(is_volatile, inner.node, size.node),
                       start_pos))))
          [] token.type = "NAME" ->
                Placed(toks, e, RefType(is_volatile, token.value), start_pos)
          [] OTHER -> PFatal(e.ps, P_WRONGTOKEN)
    IN Kind(e.node)

\* parse_type
parse_type(toks, ps) ==
    LET Typed(is_volatile, ps1) ==
            IF ~can_parse_type(toks, ps1) THEN PFatal(ps1, P_WRONGTOKEN)
            ELSE TypeAfter(toks, eat(toks, ps1, "", "", TRUE), is_volatile,
                           start_of(toks, ps))
        Volatile(is_volatile) ==
            Typed(is_volatile,
                  IF is_volatile THEN eat(toks, ps, "", "", TRUE).ps ELSE ps)
    IN Volatile(iskeyword(cur_token(toks, ps), {"volatile"}))

\* parse_a_expr_list: node is the list of the expressions
parse_a_expr_list(toks, ps, a_expr_list) ==
    Then(Call("parse_expr_inner", toks, ps, 1), LAMBDA e :
    IF ispunc(cur_token(toks, e.ps), {","})
    THEN Call("parse_a_expr_list", toks,
               eat(toks, e.ps, "PUNC", ",", TRUE).ps,
               Append(a_expr_list, e.node))
    ELSE PRet(e.ps, Append(a_expr_list, e.node)))

\* parse_expr: the CommaExpr ends where its last expression starts
parse_expr(toks, ps) ==
    Then(Call("parse_a_expr_list", toks, ps, <<>>), LAMBDA l :
    IF Len(l.node) = 1 THEN PRet(l.ps, l.node[1])
    ELSE PRet(l.ps,
              Located(CommaExpr(l.node, NoLoc), start_of(toks, ps),
                      <<l.node[Len(l.node)].loc[1],
                        l.node[Len(l.node)].loc[2]>>)))

\* parse_atom
parse_atom(toks, ps) ==
    LET Atom(token, start_pos, e) ==
        CASE iskeyword(token, {"szexpr"}) ->
                Then(eat(toks, e.ps, "PUNC", "(", TRUE), LAMBDA open :
                Then(Call("parse_expr_inner", toks, open.ps, 0), LAMBDA expr :
                Then(eat(toks, expr.ps, "PUNC", ")", TRUE), LAMBDA close :
                Placed(toks, close, Expr1("SzexprExpr", "expr", expr.node),
                       start_pos))))
          [] iskeyword(token, {"sztype"}) ->
                Then(eat(toks, e.ps, "PUNC", "(", TRUE), LAMBDA open :
                Then(Call("parse_type", toks, open.ps, None), LAMBDA type :
                Then(eat(toks, type.ps, "PUNC", ")", TRUE), LAMBDA close :
                Placed(toks, close, Expr1("SztypeExpr", "type", type.node),
                       start_pos))))
          [] ispunc(token, {"("}) ->
                Then(Call("parse_expr_inner", toks, e.ps, 0), LAMBDA expr :
                Then(eat(toks, expr.ps, "PUNC", ")", TRUE), LAMBDA close :
                Placed(toks, close, expr.node, start_pos)))
          [] token.type = "STRING" ->
                Placed(toks, e, Expr1("StrExpr", "utf8", token.value),
                       start_pos)
          [] token.type = "INTEGER" ->
                Placed(toks, e,
                       IntExpr(PyStr(token.value[2]), token.value[1], NoLoc),
                       start_pos)
          [] token.type = "NAME" ->
                Placed(toks, e, NameExpr(token.value, NoLoc), start_pos)
    IN IF ~can_parse_atom(toks, ps) THEN PFatal(ps, P_WRONGTOKEN)
       ELSE Atom(cur_token(toks, ps), start_of(toks, ps),
                 eat(toks, ps, "", "", TRUE))

\* __parse_expr_inner, its loop over the postfix and infix operators that
\* follow lhs; is_op_assign subscripts the value of the token, which is
\* None at EOF
expr_loop(toks, ps, lhs, min_prec) ==
    LET Infix(token, prec) ==
            IF prec = <<0, 0>> THEN PRet(ps, lhs)
            ELSE IF prec[1] < min_prec THEN PRet(ps, lhs)
            ELSE Then(Call("read_infix_expr", toks, ps, lhs), LAMBDA r :
                 Call("expr_loop", toks, r.ps, <<r.node, min_prec>>))
        Postfix(token, prec) ==
            IF prec # 0
            THEN IF prec < min_prec THEN PRet(ps, lhs)
                 ELSE Then(Call("read_postfix_expr", toks, ps, lhs),
                           LAMBDA r :
                      Call("expr_loop", toks, r.ps, <<r.node, min_prec>>))
            ELSE IF token.type = "EOF" THEN PRaise(ps, "TypeError")
            ELSE IF ~HasStr(token) THEN PRet(ps, lhs)
            ELSE Infix(token, get_infix_prec(token.value))
        Step(token) == Postfix(token, get_postfix_prec(token))
    IN Step(cur_token(toks, ps))

\* __parse_expr_inner
parse_expr_inner(toks, ps, min_prec) ==
    Then(IF get_prefix_prec(cur_token(toks, ps)) # 0
         THEN Call("read_prefix_expr", toks, ps, None)
         ELSE Call("parse_atom", toks, ps, None), LAMBDA first :
    Call("expr_loop", toks, first.ps, <<first.node, min_prec>>))

\* The operator node of the token op, placed on it.
OpAt(cls, op) ==
    OpNode(cls, Span(op.start_pos[1], op.start_pos[2], op.end_pos[1],
                     op.end_pos[2]))

\* __read_prefix_expr
read_prefix_expr(toks, ps) ==
    LET Node(op, rhs) ==
            CASE op.value = "&" -> Expr1("AddrOfExpr", "expr", rhs)
              [] op.value = "*" -> Expr1("DerefExpr", "pointer_expr", rhs)
              [] is_op_unary(op.value) # "" ->
                    UnaryExpr("UnaryExpr", OpAt(is_op_unary(op.value), op),
                              rhs)
              [] is_op_ucond(op.value) # "" ->
                    UnaryExpr("UnaryCondExpr",
                              OpAt(is_op_ucond(op.value), op), rhs)
    IN Then(eat(toks, ps, "PUNC", "", TRUE), LAMBDA o :
       Then(Call("parse_expr_inner", toks, o.ps, get_prefix_prec(o.node)),
            LAMBDA rhs :
       PRet(rhs.ps,
            Located(Node(o.node, rhs.node), o.node.start_pos,
                    <<rhs.node.loc[3], rhs.node.loc[4]>>))))

\* __read_postfix_expr
read_postfix_expr(toks, ps, lhs) ==
    LET start_pos == <<lhs.loc[1], lhs.loc[2]>>
        Node(o, op) ==
        CASE op.value = "as" ->
                LET Cast(signed) ==
                    Then(Call("parse_type", toks,
                                    IF signed
                                    THEN eat(toks, o.ps, "", "", TRUE).ps
                                    ELSE o.ps, None), LAMBDA cast_type :
                    Placed(toks, cast_type,
                           CastExpr(lhs, cast_type.node, signed, NoLoc),
                           start_pos))
                IN Cast(ispunc(cur_token(toks, o.ps), {"$"}))
          [] op.value \in {"->", "."} ->
                Then(eat(toks, o.ps, "NAME", "", TRUE), LAMBDA name :
                Placed(toks, name,
                       AccessExpr(IF op.value = "." THEN lhs
                                  ELSE Located(Expr1("DerefExpr",
                                                     "pointer_expr", lhs),
                                               start_pos, op.end_pos),
                                  name.node.value),
                       start_pos))
          [] op.value = "[" ->
                Then(Call("parse_expr", toks, o.ps, None), LAMBDA index_expr :
                Then(eat(toks, index_expr.ps, "PUNC", "]", TRUE),
                     LAMBDA close :
                Placed(toks, close, IndexExpr(lhs, index_expr.node),
                       start_pos)))
          [] op.value = "(" ->
                Then(IF ispunc(cur_token(toks, o.ps), {")"})
                     THEN PRet(o.ps, <<>>)
                     ELSE Call("parse_a_expr_list", toks, o.ps, <<>>),
                     LAMBDA args :
                Then(eat(toks, args.ps, "PUNC", ")", TRUE), LAMBDA close :
                Placed(toks, close, CallExpr(lhs, args.node), start_pos)))
    IN Then(eat(toks, ps, "PUNC", "", TRUE), LAMBDA o : Node(o, o.node))

\* __read_infix_expr: the operator of an augmented assignment is given no
\* span
read_infix_expr(toks, ps, lhs) ==
    LET start_pos == <<lhs.loc[1], lhs.loc[2]>>
        Node(o, op, r_prec) ==
        CASE is_op_assign(op.value) ->
                Then(Call("parse_expr_inner", toks, o.ps, r_prec),
                     LAMBDA rhs :
                Placed(toks, rhs,
                       AssignExpr(lhs, rhs.node,
                                  IF get_assign_aug(op.value) = "" THEN None
                                  ELSE OpNode(get_assign_aug(op.value),
                                              NoLoc),
                                  NoLoc),
                       start_pos))
          [] op.value = "?" ->
                Then(Call("parse_expr", toks, o.ps, None), LAMBDA true_expr :
                Then(eat(toks, true_expr.ps, "PUNC", ":", TRUE),
                     LAMBDA colon :
                Then(Call("parse_expr_inner", toks, colon.ps, r_prec),
                     LAMBDA false_expr :
                Placed(toks, false_expr,
                       TernaryExpr(lhs, true_expr.node, false_expr.node),
                       start_pos))))
          [] op.value # "?" /\ ~is_op_assign(op.value)
                            /\ is_op_binary(op.value) # "" ->
                Then(Call("parse_expr_inner", toks, o.ps, r_prec),
                     LAMBDA right :
                Placed(toks, right,
                       BinaryExpr(lhs, OpAt(is_op_binary(op.value), op),
                                  right.node, NoLoc),
                       start_pos))
          [] is_op_binary(op.value) = "" /\ is_op_bcond(op.value) # "" ->
                Then(Call("parse_expr_inner", toks, o.ps, r_prec),
                     LAMBDA right :
                Placed(toks, right,
                       BinaryCondExpr(lhs, OpAt(is_op_bcond(op.value), op),
                                      right.node, NoLoc),
                       start_pos))
    IN Then(eat(toks, ps, "PUNC", "", TRUE), LAMBDA o :
       Node(o, o.node, get_infix_prec(o.node.value)[2]))

\* parse_param_list: node is <<param_names, param_types, is_variadic>>
parse_param_list(toks, ps, param_names, param_types) ==
    LET Dots(names, types, dots) ==
            IF ispunc(cur_token(toks, dots.ps), {","})
            THEN PFatal(dots.ps, P_INVALID_OPERATOR)
            ELSE PRet(dots.ps, <<names, types, TRUE>>)
        Comma(names, types, comma) ==
            IF ~ispunc(cur_token(toks, comma.ps), {"..."})
            THEN Call("parse_param_list", toks, comma.ps, <<names, types>>)
            ELSE Dots(names, types, eat(toks, comma.ps, "", "", TRUE))
        Param(names, types, type) ==
            IF ~ispunc(cur_token(toks, type.ps), {","})
            THEN PRet(type.ps, <<names, types, FALSE>>)
            ELSE Comma(names, types, eat(toks, type.ps, "PUNC", ",", TRUE))
    IN Then(eat(toks, ps, "NAME", "", TRUE), LAMBDA name :
       Then(eat(toks, name.ps, "PUNC", ":", TRUE), LAMBDA colon :
       Then(Call("parse_type", toks, colon.ps, None), LAMBDA type :
       Param(Append(param_names, name.node.value),
             Append(param_types, type.node), type))))

\* The keyword a declaration starts with, after static (or inline) if
\* modifiers holds the token.
DeclKeyword(toks, ps, modifiers) ==
    LET After(token) ==
            IF iskeyword(token, modifiers) THEN peek_token(toks, ps, 1, TRUE)
            ELSE token
    IN After(cur_token(toks, ps))

\* can_parse_func_decl
can_parse_func_decl(toks, ps) ==
    iskeyword(DeclKeyword(toks, ps, {"static", "inline"}), {"func"})

\* parse_func_decl: the FuncType of the signature is given no span
parse_func_decl(toks, ps) ==
    LET Decl1(modifier, start_pos, ps1) ==
            Then(eat(toks, ps1, "KEYWORD", "func", TRUE), LAMBDA func :
            Then(eat(toks, func.ps, "NAME", "", TRUE), LAMBDA name :
            Then(eat(toks, name.ps, "PUNC", "(", TRUE), LAMBDA open :
            Then(IF ispunc(cur_token(toks, open.ps), {")"})
                 THEN PRet(open.ps, <<<<>>, <<>>, FALSE>>)
                 ELSE Call("parse_param_list", toks, open.ps, << <<>>, <<>> >>),
                 LAMBDA params :
            Then(eat_puncs(toks, params.ps, <<")", "->", "(">>),
                 LAMBDA arrow :
            Then(Call("parse_type", toks, arrow.ps, None), LAMBDA ret_type :
            Then(eat(toks, ret_type.ps, "PUNC", ")", TRUE), LAMBDA close :
            Then(IF ispunc(cur_token(toks, close.ps), {";"})
                 THEN PRet(eat(toks, close.ps, "", "", TRUE).ps, None)
                 ELSE IF ispunc(cur_token(toks, close.ps), {"{"})
                 THEN POutside(close.ps)
                 ELSE PFatal(close.ps, P_WRONGTOKEN), LAMBDA body :
            Placed(toks, body,
                   FuncDecl(name.node.value,
                            FuncType(FALSE, ret_type.node, params.node[2],
                                     params.node[3]),
                            params.node[1], body.node,
                            iskeyword(modifier, {"static", "inline"}),
                            iskeyword(modifier, {"inline"}), NoLoc),
                   start_pos)))))))))
        Modified(modifier) ==
            Decl1(modifier, modifier.start_pos,
                  IF iskeyword(modifier, {"static", "inline"})
                  THEN eat(toks, ps, "", "", TRUE).ps ELSE ps)
    IN Modified(cur_token(toks, ps))

\* can_parse_const_decl
can_parse_const_decl(toks, ps) ==
    iskeyword(DeclKeyword(toks, ps, {"static"}), {"set"})

\* can_parse_decl: can_parse_var_decl or can_parse_type_decl
can_parse_decl(toks, ps) ==
    \/ iskeyword(DeclKeyword(toks, ps, {"static"}), {"let"})
    \/ iskeyword(cur_token(toks, ps), {"using", "struct", "union"})

\* parse_const_decl
parse_const_decl(toks, ps) ==
    LET Decl1(modifier, start_pos, ps1) ==
            Then(eat(toks, ps1, "KEYWORD", "set", TRUE), LAMBDA set :
            Then(eat(toks, set.ps, "NAME", "", TRUE), LAMBDA name :
            Then(eat(toks, name.ps, "PUNC", ":", TRUE), LAMBDA colon :
            Then(Call("parse_type", toks, colon.ps, None), LAMBDA type :
            Then(IF ~ispunc(cur_token(toks, type.ps), {":="})
                 THEN PFatal(type.ps, P_MISSINGVALUE)
                 ELSE eat(toks, type.ps, "PUNC", ":=", TRUE),
                 LAMBDA becomes :
            Then(Call("parse_expr", toks, becomes.ps, None), LAMBDA value :
            Then(eat(toks, value.ps, "PUNC", ";", TRUE), LAMBDA semi :
            Then(IF peek_token(toks, semi.ps, 0, FALSE).type = "COMMENT"
                 THEN eat(toks, semi.ps, "", "", FALSE)
                 ELSE semi, LAMBDA comment :
            Placed(toks, comment,
                   ConstDecl(name.node.value, type.node, value.node,
                             iskeyword(modifier, {"static"}), NoLoc),
                   start_pos)))))))))
        Modified(modifier) ==
            Decl1(modifier, modifier.start_pos,
                  IF iskeyword(modifier, {"static"})
                  THEN eat(toks, ps, "", "", TRUE).ps ELSE ps)
    IN Modified(cur_token(toks, ps))

\* parse_global_decl
parse_global_decl(toks, ps) ==
    IF can_parse_func_decl(toks, ps) THEN parse_func_decl(toks, ps)
    ELSE IF can_parse_const_decl(toks, ps) THEN parse_const_decl(toks, ps)
    ELSE IF can_parse_decl(toks, ps) THEN POutside(ps)
    ELSE PFatal(ps, P_FAILEDCHECK)

\* The methods Call calls.
Call(method, toks, ps, arg) ==
    CASE method = "parse_type" -> parse_type(toks, ps)
      [] method = "parse_expr" -> parse_expr(toks, ps)
      [] method = "parse_a_expr_list" -> parse_a_expr_list(toks, ps, arg)
      [] method = "parse_expr_inner" -> parse_expr_inner(toks, ps, arg)
      [] method = "expr_loop" -> expr_loop(toks, ps, arg[1], arg[2])
      [] method = "parse_atom" -> parse_atom(toks, ps)
      [] method = "read_prefix_expr" -> read_prefix_expr(toks, ps)
      [] method = "read_postfix_expr" -> read_postfix_expr(toks, ps, arg)
      [] method = "read_infix_expr" -> read_infix_expr(toks, ps, arg)
      [] method = "parse_param_list" ->
            parse_param_list(toks, ps, arg[1], arg[2])
      [] method = "parse_global_decl" -> parse_global_decl(toks, ps)

\* parse_module, its loop over the comments at the head of the file
RECURSIVE eat_comments(_, _)
eat_comments(toks, ps) ==
    IF peek_token(toks, ps, 0, FALSE).type = "COMMENT"
    THEN eat_comments(toks, eat(toks, ps, "", "", FALSE).ps)
    ELSE ps

\* parse_module, its loop over the declarations
RECURSIVE parse_decls(_, _, _, _)
parse_decls(toks, ps, decls, start_loc) ==
    IF cur_token(toks, ps).type = "EOF"
    THEN PRet(ps,
              Module(decls,
                     IF decls = <<>>
                     THEN Span(start_loc[1], start_loc[2], start_loc[1],
                               start_loc[2])
                     ELSE Span(start_loc[1], start_loc[2],
                               decls[Len(decls)].loc[3],
                               decls[Len(decls)].loc[4])))
    ELSE Then(Call("parse_global_decl", toks, ps, None), LAMBDA d :
         parse_decls(toks, d.ps, Append(decls, d.node), start_loc))

\* parse_module
parse_module(toks, ps) ==
    parse_decls(toks, eat_comments(toks, ps), <<>>, start_of(toks, ps))

(***************************************************************************)
(* The sources of the parser: constant declarations                        *)
(***************************************************************************)
\* The words of the value of a constant: two names, an integer, the comma,
\* the operators -> + += and the parentheses.
Words ==
    {<<"a">>,
     <<"b", "b">>,
     <<"1">>,
     <<",">>,
     <<"-", ">">>,
     <<"+">>,
     <<"+", "=">>,
     <<"(">>,
     <<")">>}

MaxWords == 3

\* func f ( ) -> ( void ) ;
FuncHead ==
    <<"f", "u", "n", "c", " ", "f", " ", "(", " ", ")", " ",
      "-", ">", " ", "(", " ",
      "v", "o", "i", "d", " ", ")", " ", ";", " ">>

\* set c : int :=
SetHead ==
    <<"s", "e", "t", " ", "c", " ", ":", " ",
      "i", "n", "t", " ", ":", "=", " ">>

\* The words of a list, each followed by a space.
RECURSIVE Spaced(_)
Spaced(ws) == IF ws = <<>> THEN <<>> ELSE ws[1] \o <<" ">> \o Spaced(Tail(ws))

\* A module of one constant whose value is written with the words ws,
\* after the head of a function when with_func.
SourceOf(with_func, ws) ==
    (IF with_func THEN FuncHead ELSE <<>>) \o SetHead \o Spaced(ws)
        \o <<";">>

(***************************************************************************)
(* The parser on the tokens of a source                                    *)
(***************************************************************************)
\* Parser(Lexer(source).lex_all()) on every source of at most MaxWords
\* words, before parse_module is called. None of these sources stops the
\* lexer.
ParseInit ==
    /\ \E with_func \in BOOLEAN, ws \in TagSeqs(Words, MaxWords) :
        /\ source = SourceOf(with_func, ws)
        /\ \E r \in {lex_all(source, NewLexer, <<>>)} :
            /\ r.exc = ""
            /\ lexer = r.lx
            /\ tokens = r.tokens
    /\ lpc = "parse_module"
    /\ parsed = 0
    /\ TablesIdle
    /\ TypesIdle
    /\ CompileIdle
    /\ DriverIdle

\* parse_module returns the Module.
ParseModule ==
    /\ lpc = "parse_module"
    /\ \E r \in {parse_module(tokens, NewParser)} :
        /\ r.exc = ""
        /\ parsed' = r
    /\ lpc' = "parsed"
    /\ UNCHANGED <<source, lexer, tokens>>
    /\ UNCHANGED <<driverVars, tableVars, typeVars, compileVars>>

\* parse_module raises.
ParseRaise ==
    /\ lpc = "parse_module"
    /\ \E r \in {parse_module(tokens, NewParser)} :
        /\ r.exc # ""
        /\ parsed' = r
        /\ lpc' = r.exc
    /\ UNCHANGED <<source, lexer, tokens>>
    /\ UNCHANGED <<driverVars, tableVars, typeVars, compileVars>>

ParseNext ==
    \/ ParseModule
    \/ ParseRaise

SpecParse == ParseInit /\ [][ParseNext]_vars

\* The sources stay inside the part of the grammar that is modelled, and
\* every _eat returns.
InsideGrammar == lpc \notin {"outside", "no return"}

(***************************************************************************)
(* C17: the spans of the parsed nodes                                      *)
(***************************************************************************)
\* The child nodes of a parsed node: those of iter_child_nodes and the
\* operator node of the _fields entry "op".
ChildNodes(node) ==
    {GetChild(node, iter_child_nodes(node)[i]) :
        i \in 1..Len(iter_child_nodes(node))}
    \cup (IF node.k \in {"UnaryExpr", "UnaryCondExpr", "BinaryExpr",
                        "BinaryCondExpr", "AssignExpr"}
             /\ IsAST(node.op)
          THEN {node.op} ELSE {})

\* ast.walk: the node and every node under it
RECURSIVE walk(_)
walk(node) == {node} \cup UNION {walk(c) : c \in ChildNodes(node)}

\* lineno, col_offset, end_lineno and end_col_offset are all set.
HasSpan(node) == LocOf(node) # NoLoc

\* The span of the child lies within the span of the parent.
SpanWithin(child, parent) ==
    /\ PosLeq(<<parent.loc[1], parent.loc[2]>>,
              <<child.loc[1], child.loc[2]>>)
    /\ PosLeq(<<child.loc[3], child.loc[4]>>,
              <<parent.loc[3], parent.loc[4]>>)

\* C17: after parsing succeeds, every node reachable from the Module has
\* its four span fields set, and the span of every child node lies within
\* the span of its parent.
C17_SpansNested ==
    lpc = "parsed" =>
        \A node \in walk(parsed.node) :
            /\ HasSpan(node)
            /\ \A child \in ChildNodes(node) :
                    HasSpan(child) /\ SpanWithin(child, node)

(***************************************************************************)
(* C26: identifiers                                                        *)
(***************************************************************************)
\* The characters of the sources of names: letters that spell the
\* punctuator `as` and the keyword `if`, another letter, the underscore, a
\* digit and the space.
NameChars == {"a", "s", "d", "i", "f", "_", "1", " "}

\* Lexer(source) on every source of at most MaxLen of these characters.
NamesInit ==
    /\ source \in TagSeqs(NameChars, MaxLen)
    /\ lexer = NewLexer
    /\ tokens = <<>>
    /\ lpc = "lex_all"
    /\ parsed = 0
    /\ TablesIdle
    /\ TypesIdle
    /\ CompileIdle
    /\ DriverIdle

SpecNames == NamesInit /\ [][LexNext]_vars

\* [_A-Za-z0-9] and [_A-Za-z]
IdentChar(c) == c = "_" \/ isalnum(c)

IdentStart(c) == c = "_" \/ isalpha(c)

\* The maximal runs of the source that match [_A-Za-z][_A-Za-z0-9]*, as
\* <<first, last>>; a run that starts with a digit is attached to a number.
IdentRuns(src) ==
    {run \in (1..Len(src)) \X (1..Len(src)) :
        /\ run[1] <= run[2]
        /\ \A n \in run[1]..run[2] : IdentChar(src[n])
        /\ IdentStart(src[run[1]])
        /\ run[1] > 1 => ~IdentChar(src[run[1] - 1])
        /\ run[2] < Len(src) => ~IdentChar(src[run[2] + 1])}

\* The token that carries the whole run: a Keyword if the run is in the
\* keyword set, otherwise a Name.
CarriesRun(tok, src, run) ==
    /\ tok.type = IF SubSeq(src, run[1], run[2]) \in Keywords
                  THEN "KEYWORD" ELSE "NAME"
    /\ tok.value = Str(SubSeq(src, run[1], run[2]))
    /\ tok.start_pos = snapshot(advance(src, NewLexer, run[1] - 1))
    /\ tok.end_pos = snapshot(advance(src, NewLexer, run[2] - 1))

\* C26: when lex_all has returned, every maximal identifier run of the
\* source that is not itself a punctuator word is carried whole by one
\* token, a Keyword or a Name; a run that begins with the spelling of a
\* punctuator word is one Name.
C26_IdentifierOneToken ==
    lpc = "returned" =>
        \A run \in IdentRuns(source) :
            SubSeq(source, run[1], run[2]) \notin Punctuators =>
                \E k \in 1..Len(tokens) : CarriesRun(tokens[k], source, run)

\* The same for the runs that do not begin with a punctuator word.
BeginsWithPunctuator(word) ==
    \E n \in 1..Len(word) : SubSeq(word, 1, n) \in Punctuators

NoPunctuatorPrefix ==
    lpc = "returned" =>
        \A run \in IdentRuns(source) :
            ~BeginsWithPunctuator(SubSeq(source, run[1], run[2])) =>
                \E k \in 1..Len(tokens) : CarriesRun(tokens[k], source, run)

(***************************************************************************)
(* C29: integer literals                                                   *)
(***************************************************************************)
\* The digits of the literals: 0, the largest decimal digit and the
\* largest hexadecimal digit.
DigitChars == {"0", "9", "F"}

MaxDigits == 5

\* A literal: an optional prefix 0x, digits, an optional suffix.
IntSource(prefix, digits, suffix) == prefix \o digits \o suffix

\* Lexer(source) on every literal of at most MaxDigits digits; a decimal
\* literal with the digit F is no literal.
IntInit ==
    /\ \E prefix \in {<<>>, <<"0", "x">>},
          digits \in TagSeqs(DigitChars, MaxDigits) \ {<<>>},
          suffix \in {<<>>, <<"i">>, <<"l">>, <<"q">>} :
            source = IntSource(prefix, digits, suffix)
    /\ lexer = NewLexer
    /\ tokens = <<>>
    /\ lpc = "lex_all"
    /\ parsed = 0
    /\ TablesIdle
    /\ TypesIdle
    /\ CompileIdle
    /\ DriverIdle

SpecInt == IntInit /\ [][LexNext]_vars

\* The parts of a literal, read from the source.
LitBase(src) ==
    IF Len(src) >= 2 /\ src[1] = "0" /\ src[2] = "x" THEN 16 ELSE 10

LitType(src) ==
    CASE src[Len(src)] = "l" -> "long"
      [] src[Len(src)] = "q" -> "quad"
      [] OTHER -> "int"

LitDigits(src) ==
    SubSeq(src, IF LitBase(src) = 16 THEN 3 ELSE 1,
           IF src[Len(src)] \in {"i", "l", "q"} THEN Len(src) - 1
           ELSE Len(src))

IsLiteral(src) ==
    /\ LitDigits(src) # <<>>
    /\ \A n \in 1..Len(LitDigits(src)) :
            IsDigitOf(LitDigits(src)[n], LitBase(src))

LitValue(src) == IntOf(LitDigits(src), LitBase(src))

\* value mod 2^bits, for the values below 2^31
ModBits(value, bits) == IF bits >= 31 THEN value ELSE value % (2 ^ bits)

Warned == \E n \in 1..Len(lexer.log) : lexer.log[n].level = "warn"

\* C29: when lex_all has ended on a literal it has returned, with the
\* success flag still set, one Integer token that carries the type of the
\* suffix (int without one) and the value of the literal mod
\* 2^(INT_SIZES[type] * BITS_PER_WORD); a warning was emitted if and only
\* if the value carried differs from the value of the literal.
C29_IntegerTruncated ==
    (lpc # "lex_all" /\ IsLiteral(source)) =>
        /\ lpc = "returned"
        /\ lexer.success
        /\ Len(tokens) = 2
        /\ tokens[1].type = "INTEGER"
        /\ tokens[1].value =
                <<ModBits(LitValue(source),
                          INT_SIZES(LitType(source)) * BITS_PER_WORD),
                  LitType(source)>>
        /\ Warned <=> tokens[1].value[1] # LitValue(source)

\* The literal 0 followed by a suffix: _readInt takes every letter after a
\* first 0 for the letter of a base prefix.
ZeroSuffixed(src) ==
    LitBase(src) = 10 /\ LitDigits(src) = <<"0">> /\ Len(src) = 2

\* Every other literal is lexed as C29 says.
OtherLiteralsTruncated == ZeroSuffixed(source) \/ C29_IntegerTruncated

(***************************************************************************)
(* C27: the modifiers of a function declaration                            *)
(***************************************************************************)
StaticWord ==
    <<"s", "t", "a", "t", "i", "c">>

InlineWord ==
    <<"i", "n", "l", "i", "n", "e">>

\* No modifier, one, and the two in either order.
ModifierLists ==
    {<<>>, <<StaticWord>>, <<InlineWord>>, <<StaticWord, InlineWord>>,
     <<InlineWord, StaticWord>>}

\* func f (
FuncName ==
    <<"f", "u", "n", "c", " ", "f", " ", "(", " ">>

\* The parameter lists: none, a : int and a : int , b : long
ParamLists ==
    {<<>>,
     <<"a", " ", ":", " ", "i", "n", "t", " ">>,
     <<"a", " ", ":", " ", "i", "n", "t", " ", ",", " ", "b", " ", ":",
       " ", "l", "o", "n", "g", " ">>}

\* ) -> (
Arrow ==
    <<")", " ", "-", ">", " ", "(", " ">>

\* The return types: void int long quad and the pointer * int
ReturnTypes ==
    {<<"v", "o", "i", "d">>,
     <<"i", "n", "t">>,
     <<"l", "o", "n", "g">>,
     <<"q", "u", "a", "d">>,
     <<"*", " ", "i", "n", "t">>}

\* ) ;
FuncEnd ==
    <<" ", ")", " ", ";">>

\* What follows the function: nothing, or set c : int := 1 ;
Followers ==
    {<<>>,
     <<" ", "s", "e", "t", " ", "c", " ", ":", " ", "i", "n", "t", " ",
       ":", "=", " ", "1", " ", ";">>}

\* A function declaration without body, after its modifiers.
FuncSource(modifiers, params, ret, follower) ==
    Spaced(modifiers) \o FuncName \o params \o Arrow \o ret \o FuncEnd
        \o follower

\* Parser(Lexer(source).lex_all()) on these declarations, before
\* parse_module is called.
FuncInit ==
    /\ \E modifiers \in ModifierLists, params \in ParamLists,
          ret \in ReturnTypes, follower \in Followers :
        /\ source = FuncSource(modifiers, params, ret, follower)
        /\ \E r \in {lex_all(source, NewLexer, <<>>)} :
            /\ r.exc = ""
            /\ lexer = r.lx
            /\ tokens = r.tokens
    /\ lpc = "parse_module"
    /\ parsed = 0
    /\ TablesIdle
    /\ TypesIdle
    /\ CompileIdle
    /\ DriverIdle

SpecFunc == FuncInit /\ [][ParseNext]_vars

\* The word is written in the source.
Occurs(word, src) ==
    \E n \in 1..(Len(src) - Len(word) + 1) :
        SubSeq(src, n, n + Len(word) - 1) = word

\* C27: with no modifier, with static, with inline and with the two in
\* either order, parse_module returns, and the FuncDecl has is_static true
\* if and only if static is written before func and is_inline true if and
\* only if inline is.
C27_ModifiersIndependent ==
    lpc # "parse_module" =>
        /\ lpc = "parsed"
        /\ parsed.node.decls[1].k = "FuncDecl"
        /\ parsed.node.decls[1].is_static <=> Occurs(StaticWord, source)
        /\ parsed.node.decls[1].is_inline <=> Occurs(InlineWord, source)

\* What parse_func_decl does: inline alone sets both flags, and a second
\* modifier is never looked past.
ModifiersAsParsed ==
    lpc # "parse_module" =>
        IF Occurs(StaticWord, source) /\ Occurs(InlineWord, source)
        THEN lpc = "Exception"
        ELSE /\ lpc = "parsed"
             /\ parsed.node.decls[1].is_static
                    <=> (Occurs(StaticWord, source)
                         \/ Occurs(InlineWord, source))
             /\ parsed.node.decls[1].is_inline
                    <=> Occurs(InlineWord, source)

(***************************************************************************)
(* C28: the tree of an expression                                          *)
(***************************************************************************)
\* The infix operators of the expressions, as the words of a source; the
\* ternary is written with its middle expression b.
InfixWords ==
    {<<<<":", "=">>>>,
     <<<<"+", "=">>>>,
     <<<<"?">>, <<"b">>, <<":">>>>,
     <<<<"|", "|">>>>,
     <<<<"<">>>>,
     <<<<"+">>>>,
     <<<<"-">>>>,
     <<<<"*">>>>}

MaxOps == 2

\* The name of the n-th operand.
OperandName(n) == <<<<"x">>, <<"y">>, <<"z">>, <<"w">>, <<"v">>>>[n]

\* The words of the n-th operand: the name alone, after the prefix -,
\* before the postfix . m, or both.
OperandWords(style, n) ==
    (IF style \in {"prefix", "both"} THEN <<<<"-">>>> ELSE <<>>)
        \o <<OperandName(n)>>
        \o (IF style \in {"postfix", "both"} THEN <<<<".">>, <<"m">>>>
            ELSE <<>>)

\* The words of an expression: operands with the infix operators ops
\* between them.
RECURSIVE ExprWords(_, _, _)
ExprWords(style, ops, n) ==
    IF ops = <<>> THEN OperandWords(style, n)
    ELSE OperandWords(style, n) \o ops[1]
            \o ExprWords(style, Tail(ops), n + 1)

\* The words but the last one.
Front(ws) == SubSeq(ws, 1, Len(ws) - 1)

\* Parser(Lexer(source).lex_all()) on the constants whose value is one of
\* these expressions, whole or cut before its last word, before
\* parse_module is called.
ExprInit ==
    /\ \E style \in {"plain", "prefix", "postfix", "both"},
          ops \in TagSeqs(InfixWords, MaxOps), whole \in BOOLEAN :
        /\ source = SourceOf(FALSE,
                             IF whole THEN ExprWords(style, ops, 1)
                             ELSE Front(ExprWords(style, ops, 1)))
        /\ \E r \in {lex_all(source, NewLexer, <<>>)} :
            /\ r.exc = ""
            /\ lexer = r.lx
            /\ tokens = r.tokens
    /\ lpc = "parse_module"
    /\ parsed = 0
    /\ TablesIdle
    /\ TypesIdle
    /\ CompileIdle
    /\ DriverIdle

SpecExpr == ExprInit /\ [][ParseNext]_vars

\* The tokens of the value of the constant, between set c : int := and
\* the semicolon: their values.
ExprValues ==
    [n \in 1..(Len(tokens) - 7) |-> tokens[n + 5].value]

\* The expression is whole: its last token is a name.
IsWhole(ts) ==
    /\ Len(ts) > 0
    /\ ts[Len(ts)] \in {"x", "y", "z", "w", "v", "b", "m"}

\* The level of the precedence table of an infix operator (its left
\* number), and the levels that group right to left.
LevelOf(op) ==
    CASE op \in {":=", "+="} -> 1
      [] op = "?" -> 3
      [] op = "||" -> 5
      [] op = "<" -> 17
      [] op \in {"+", "-"} -> 21
      [] op = "*" -> 23

RightToLeft(level) == level \in {1, 3}

\* The shape of a tree: the class of the node, its operator or name, and
\* the shapes of its operands.
Shaped(k, op, kids) == [k |-> k, op |-> op, kids |-> kids]

\* The number of ternaries open before the n-th value.
RECURSIVE OpenBefore(_, _)
OpenBefore(ts, n) ==
    IF n <= 1 THEN 0
    ELSE OpenBefore(ts, n - 1)
            + (CASE ts[n - 1] = "?" -> 1
                 [] ts[n - 1] = ":" -> -1
                 [] OTHER -> 0)

\* The infix operators of the values that are inside no ternary: they
\* follow a name.
TopInfix(ts) ==
    {n \in 2..Len(ts) :
        /\ ts[n] \in {":=", "+=", "?", "||", "<", "+", "-", "*"}
        /\ ts[n - 1] \in {"x", "y", "z", "w", "v", "b", "m"}
        /\ OpenBefore(ts, n) = 0}

\* An operand: a prefix operator applies to all that follows it, a postfix
\* operator to the name before it.
RECURSIVE OperandTree(_)
OperandTree(ts) ==
    CASE ts[1] = "-" ->
            Shaped("UnaryExpr", "UnaryMinus", <<OperandTree(Tail(ts))>>)
      [] ts[1] # "-" /\ Len(ts) = 1 -> Shaped("NameExpr", ts[1], <<>>)
      [] ts[1] # "-" /\ Len(ts) > 1 ->
            Shaped("AccessExpr", ts[Len(ts)],
                   <<OperandTree(SubSeq(ts, 1, Len(ts) - 2))>>)

\* The tree the precedence table dictates: the expression is split at
\* its operator of the lowest level, the last one of a level that groups
\* left to right and the first one of a level that groups right to left.
RECURSIVE TableTree(_)
TableTree(ts) ==
    LET Split(at) ==
            LET left == SubSeq(ts, 1, at - 1)
                colon == CHOOSE n \in (at + 1)..Len(ts) :
                            /\ ts[n] = ":"
                            /\ OpenBefore(ts, n) = 1
                            /\ \A q \in (at + 1)..(n - 1) :
                                ~(ts[q] = ":" /\ OpenBefore(ts, q) = 1)
            IN CASE ts[at] = "?" ->
                    Shaped("TernaryExpr", "",
                           <<TableTree(left),
                             TableTree(SubSeq(ts, at + 1, colon - 1)),
                             TableTree(SubSeq(ts, colon + 1, Len(ts)))>>)
                 [] ts[at] = ":=" ->
                    Shaped("AssignExpr", "",
                           <<TableTree(left),
                             TableTree(SubSeq(ts, at + 1, Len(ts)))>>)
                 [] ts[at] = "+=" ->
                    Shaped("AssignExpr", "Add",
                           <<TableTree(left),
                             TableTree(SubSeq(ts, at + 1, Len(ts)))>>)
                 [] ts[at] \in {"||", "<"} ->
                    Shaped("BinaryCondExpr",
                           IF ts[at] = "<" THEN "ULt" ELSE "LogicalOr",
                           <<TableTree(left),
                             TableTree(SubSeq(ts, at + 1, Len(ts)))>>)
                 [] ts[at] \in {"+", "-", "*"} ->
                    Shaped("BinaryExpr",
                           CASE ts[at] = "+" -> "Add"
                             [] ts[at] = "-" -> "Sub"
                             [] ts[at] = "*" -> "Mult",
                           <<TableTree(left),
                             TableTree(SubSeq(ts, at + 1, Len(ts)))>>)
        Lowest(tops) ==
            CHOOSE n \in tops :
                \A q \in tops :
                    \/ LevelOf(ts[n]) < LevelOf(ts[q])
                    \/ /\ LevelOf(ts[n]) = LevelOf(ts[q])
                       /\ IF RightToLeft(LevelOf(ts[n])) THEN n <= q
                          ELSE n >= q
        Tree(tops) ==
            IF tops = {} THEN OperandTree(ts) ELSE Split(Lowest(tops))
    IN Tree(TopInfix(ts))

\* The shape of a parsed expression.
RECURSIVE ShapeOf(_)
ShapeOf(node) ==
    CASE node.k = "NameExpr" -> Shaped(node.k, node.name, <<>>)
      [] node.k = "AccessExpr" ->
            Shaped(node.k, node.member_name, <<ShapeOf(node.record_expr)>>)
      [] node.k \in {"UnaryExpr", "UnaryCondExpr"} ->
            Shaped(node.k, node.op.k, <<ShapeOf(node.expr)>>)
      [] node.k \in {"BinaryExpr", "BinaryCondExpr"} ->
            Shaped(node.k, node.op.k,
                   <<ShapeOf(node.left), ShapeOf(node.right)>>)
      [] node.k = "AssignExpr" ->
            Shaped(node.k, IF node.op = None THEN "" ELSE node.op.k,
                   <<ShapeOf(node.lhs), ShapeOf(node.rhs)>>)
      [] node.k = "TernaryExpr" ->
            Shaped(node.k, "",
                   <<ShapeOf(node.cond_expr), ShapeOf(node.true_expr),
                     ShapeOf(node.false_expr)>>)

\* C28: parse_module returns on every expression of names, infix, prefix
\* and postfix operators, and the value of the constant is the tree the
\* precedence table dictates: a higher level binds tighter, a binary level
\* groups left to right, assignment and the ternary group right to left,
\* a prefix operator binds tighter than every infix operator and a postfix
\* operator tighter than a prefix operator.
C28_TreeOfPrecedenceTable ==
    (lpc # "parse_module" /\ IsWhole(ExprValues)) =>
        /\ lpc = "parsed"
        /\ ShapeOf(parsed.node.decls[1].value) = TableTree(ExprValues)

\* x + y * z has been parsed, and the product is the right operand of
\* the sum.
C28_ProductUnderSum ==
    /\ lpc = "parsed"
    /\ ExprValues = <<"x", "+", "y", "*", "z">>
    /\ parsed.node.decls[1].value.k = "BinaryExpr"
    /\ parsed.node.decls[1].value.op.k = "Add"
    /\ parsed.node.decls[1].value.right.k = "BinaryExpr"
    /\ parsed.node.decls[1].value.right.op.k = "Mult"

(***************************************************************************)
(* C21: access to a member of a record                                     *)
(***************************************************************************)
\* The members a: int and b: long of a struct or a union.
Record(cls) ==
    [k |-> cls, is_volatile |-> FALSE,
     members |-> <<MemberData("a", TInt, None), MemberData("b", TLong, None)>>]

\* `let x: struct { a: int, b: long };` or, when named, the record declared
\* as the type T and `let x: T;`; then `func f() -> (void) { x.member; }`.
\* The record is a struct or a union.
AccessCfgs ==
    [record : {"StructType", "UnionType"}, named : BOOLEAN,
     member : {"a", "b", "c"}]

AccessStmt(member, ln) ==
    ExprStmt([AccessExpr(NameExpr("x", At(ln, 30, 30)), member)
                EXCEPT !.loc = At(ln, 30, 32)],
             At(ln, 30, 33))

AccessModule(cfg) ==
    IF cfg.named
    THEN Module(<<Using("T", Record(cfg.record), 1, 0),
                  Let("x", RefType(FALSE, "T"), None, 2, 0),
                  Func("f", <<>>, <<>>,
                       Body(<<AccessStmt(cfg.member, 3)>>, 3),
                       <<FALSE, FALSE>>, 3)>>,
                Span(1, 0, 3, 99))
    ELSE Module(<<Let("x", Record(cfg.record), None, 1, 0),
                  Func("f", <<>>, <<>>,
                       Body(<<AccessStmt(cfg.member, 2)>>, 2),
                       <<FALSE, FALSE>>, 2)>>,
                Span(1, 0, 2, 99))

\* GenerateTable and the Checker on these modules.
AccessInit ==
    /\ ast \in {AccessModule(cfg) : cfg \in AccessCfgs}
    /\ pc = "GenerateTable"
    /\ idx = 0
    /\ bld = 0
    /\ chk = 0
    /\ log = <<>>
    /\ exc = ""
    /\ the_tree = 0
    /\ hist = <<>>
    /\ TablesIdle
    /\ TypesIdle
    /\ LexIdle
    /\ DriverIdle

SpecAccess == AccessInit /\ [][CompileNext]_vars

\* The AccessExpr of the module, and the members of the record declared
\* by its first declaration.
TheAccess == ast.decls[Len(ast.decls)].body.stmts[1].expr

DeclaredMembers ==
    {ast.decls[1].type.members[i].name :
        i \in 1..Len(ast.decls[1].type.members)}

\* The run ended by one fatal diagnostic of this code.
Rejected(run, code) ==
    /\ ~run.success
    /\ Len(run.diags) = 1
    /\ run.diags[1].level = "fatal"
    /\ run.diags[1].code = code

\* C21: on a variable whose type is a struct or a union, written inline
\* or through a declared type name, the Checker accepts the access to a
\* member the record has, and rejects any other with C60.
C21_MemberAccessChecked ==
    Len(hist) >= 1 =>
        IF TheAccess.member_name \in DeclaredMembers
        THEN Passed(hist[1]) /\ Clean(hist[1])
        ELSE Rejected(hist[1], C_MISSING_MEMBER)

\* What the Checker does: the inline record is checked as stated, and
\* every access through a type name is rejected with C50.
AccessAsChecked ==
    Len(hist) >= 1 =>
        IF ast.decls[1].k = "TypeDecl"
        THEN Rejected(hist[1], C_TYPE_MISMATCH)
        ELSE C21_MemberAccessChecked

(***************************************************************************)
(* C22: the type declarations pass A checks                                *)
(***************************************************************************)
\* The declared types: int, the undeclared name X, the name T itself,
\* void, and a struct whose member a: *int has a bit width.
DeclaredTypes ==
    {TInt, RefType(FALSE, "X"), RefType(FALSE, "T"), Void,
     StructType(FALSE, <<MemberData("a", Ptr(TInt), PyInt(3))>>)}

\* Where `using T := type;` is placed: at the top level, in the body of
\* f, in a block of it, in the body or the else-body of an if, in the body
\* of a while, or in a while inside an if.
Placements == {"global", "body", "block", "if", "else", "while", "while in if"}

Block(stmt, col) == CompoundStmt(<<stmt>>, At(2, col, 98))

OnX(stmtk, body, else_body, col) ==
    IF stmtk = "IfStmt"
    THEN IfStmt(NameExpr("x", At(2, col + 3, col + 3)), body, else_body, "",
                At(2, col, 98))
    ELSE IterStmt(None, NameExpr("x", At(2, col + 3, col + 3)), None, body,
                  else_body, "", At(2, col, 98))

Placed_at(place, tdecl) ==
    CASE place = "body" -> Local(tdecl)
      [] place = "block" -> Block(Local(tdecl), 25)
      [] place = "if" -> OnX("IfStmt", Block(Local(tdecl), 30), None, 22)
      [] place = "else" ->
            OnX("IfStmt", CompoundStmt(<<>>, At(2, 28, 29)),
                Block(Local(tdecl), 30), 22)
      [] place = "while" -> OnX("IterStmt", Block(Local(tdecl), 30), None, 22)
      [] place = "while in if" ->
            OnX("IfStmt",
                Block(OnX("IterStmt", Block(Local(tdecl), 40), None, 32), 30),
                None, 22)

NestedModule(place, type) ==
    IF place = "global"
    THEN Module(<<Let("x", TInt, None, 1, 0), Using("T", type, 2, 0)>>,
                Span(1, 0, 2, 99))
    ELSE Module(<<Let("x", TInt, None, 1, 0),
                  Func("f", <<>>, <<>>,
                       Body(<<Placed_at(place, Using("T", type, 2, 50))>>, 2),
                       <<FALSE, FALSE>>, 2)>>,
                Span(1, 0, 2, 99))

\* GenerateTable and the Checker on these modules.
NestedInit ==
    /\ ast \in {NestedModule(place, type) :
                    place \in Placements, type \in DeclaredTypes}
    /\ pc = "GenerateTable"
    /\ idx = 0
    /\ bld = 0
    /\ chk = 0
    /\ log = <<>>
    /\ exc = ""
    /\ the_tree = 0
    /\ hist = <<>>
    /\ TablesIdle
    /\ TypesIdle
    /\ LexIdle
    /\ DriverIdle

SpecNested == NestedInit /\ [][CompileNext]_vars

\* The code of the check a declared type fails, "" for none.
FaultOf(type) ==
    CASE type.k = "RefType" /\ type.ref_type_name = "X" -> C_TYPENOTEXIST
      [] type.k = "RefType" /\ type.ref_type_name = "T" -> C_CIRCTYPEDEF
      [] type.k = "VoidType" -> C_VOIDTYPE_DISALLOWED
      [] type.k = "StructType" -> C_INVALIDBITS
      [] OTHER -> ""

\* C22: wherever the type declaration stands (top level, function body,
\* body or else-body of an if or a loop at any depth), the Checker applies
\* the checks of pass A to it: a declaration that fails one of them ends
\* the run with its fatal, and any other passes.
C22_EveryTypeDeclChecked ==
    Len(hist) >= 1 =>
        \A u \in TypeDecls :
            IF FaultOf(u.node.type) = "" THEN Passed(hist[1])
            ELSE Rejected(hist[1], FaultOf(u.node.type))

\* The declaration is under an if or a loop.
UnderCond ==
    \E i \in 1..Len(ast.decls) :
        /\ ast.decls[i].k = "FuncDecl"
        /\ ast.decls[i].body.stmts[1].k \in {"IfStmt", "IterStmt"}

\* What the Checker does: the declarations under an if or a loop are not
\* checked and the run passes, every other one is checked as stated.
TypeDeclsAsChecked ==
    Len(hist) >= 1 =>
        IF UnderCond THEN Passed(hist[1]) /\ Clean(hist[1])
        ELSE C22_EveryTypeDeclChecked

(***************************************************************************)
(* C23: continue, break and breakif                                        *)
(***************************************************************************)
\* GenerateTable and the Checker on the modules of one function whose body
\* is an if or a loop, labelled or not, around a jump.
JumpInit ==
    /\ ast \in Modules("LabelCfgs")
    /\ pc = "GenerateTable"
    /\ idx = 0
    /\ bld = 0
    /\ chk = 0
    /\ log = <<>>
    /\ exc = ""
    /\ the_tree = 0
    /\ hist = <<>>
    /\ TablesIdle
    /\ TypesIdle
    /\ LexIdle
    /\ DriverIdle

SpecJump == JumpInit /\ [][CompileNext]_vars

\* The statements around the jump of a tree, outermost first, and the
\* jump.
EnclosingOf(tree) ==
    LET outer == tree.decls[2].body.stmts[1] IN
    IF outer.body.stmts[1].k = "IterStmt"
    THEN <<outer, outer.body.stmts[1]>>
    ELSE <<outer>>

JumpOf(tree) ==
    EnclosingOf(tree)[Len(EnclosingOf(tree))].body.stmts[1]

\* The innermost of the enclosing statements at the positions given.
Innermost(tree, positions) ==
    EnclosingOf(tree)[CHOOSE i \in positions : \A j \in positions : j <= i]

\* The enclosing statements of the class the jump needs, and those that
\* carry the label it names.
OfClass(tree) ==
    {i \in 1..Len(EnclosingOf(tree)) :
        EnclosingOf(tree)[i].k = JumpTarget(JumpOf(tree))}

OfLabel(tree) ==
    {i \in 1..Len(EnclosingOf(tree)) :
        EnclosingOf(tree)[i].label = JumpOf(tree).label}

\* The diagnostic the jump is to be rejected with, "" when it is to be
\* accepted, and the statement it then refers to.
JumpFault(tree) ==
    IF JumpOf(tree).label = ""
    THEN IF OfClass(tree) = {} THEN C_NOT_IN_IF_ITER ELSE ""
    ELSE IF OfLabel(tree) = {} THEN C_LABEL_NOT_EXIST
    ELSE IF Innermost(tree, OfLabel(tree)).k # JumpTarget(JumpOf(tree))
         THEN C_LABEL_WRONG_TYPE
    ELSE ""

JumpRefers(tree) ==
    IF JumpOf(tree).label = "" THEN Innermost(tree, OfClass(tree))
    ELSE Innermost(tree, OfLabel(tree))

\* C23: a continue or break without label is accepted if and only if a
\* loop encloses it, a breakif without label if and only if an if encloses
\* it, and its symref is then the innermost such statement, otherwise C90
\* is raised; with a label the jump is accepted if the label is that of an
\* enclosing statement of the class the jump needs, which becomes its
\* symref, and rejected with C70 for an unknown label and C80 for a
\* statement of the other class.
C23_JumpsResolved ==
    Len(hist) >= 1 =>
        IF JumpFault(hist[1].ast) = ""
        THEN /\ Passed(hist[1])
             /\ JumpOf(hist[1].ast).symref = NodeRef(JumpRefers(hist[1].ast))
        ELSE Rejected(hist[1], JumpFault(hist[1].ast))

\* What the Checker does: the jumps without label are resolved as stated,
\* and every jump with a label is rejected with C70.
JumpsAsChecked ==
    Len(hist) >= 1 =>
        IF JumpOf(hist[1].ast).label = "" THEN C23_JumpsResolved
        ELSE Rejected(hist[1], C_LABEL_NOT_EXIST)

(***************************************************************************)
(* C24: return statements                                                  *)
(***************************************************************************)
\* The return types of f: void, int, long and the alias T of int.
DeclaredReturns == {Void, TInt, TLong, RefType(FALSE, "T")}

\* What is returned: nothing, the literal 1, x: int, y: long or t: T.
Returned == {"", "1", "x", "y", "t"}

\* `using T := int; let x: int; let y: long; let t: T;` and the function
\* f whose body is the return statement, or an if on x whose body holds
\* it.
ReturnModule(rtype, name, nested) ==
    LET ret == ReturnStmt(IF name = "" THEN None ELSE Operand(name, 5, 57),
                          At(5, 50, 58))
        stmt == IF nested THEN OnX("IfStmt", Block(ret, 40), None, 30)
                ELSE ret
    IN Module(<<Using("T", TInt, 1, 0),
                Let("x", TInt, None, 2, 0),
                Let("y", TLong, None, 3, 0),
                Let("t", RefType(FALSE, "T"), None, 4, 0),
                FuncDecl("f", FuncType(FALSE, rtype, <<>>, FALSE), <<>>,
                         CompoundStmt(<<stmt>>, At(5, 20, 99)), FALSE, FALSE,
                         At(5, 0, 99))>>,
              Span(1, 0, 5, 99))

\* GenerateTable and the Checker on these modules.
ReturnInit ==
    /\ ast \in {ReturnModule(rtype, name, nested) :
                    rtype \in DeclaredReturns, name \in Returned,
                    nested \in BOOLEAN}
    /\ pc = "GenerateTable"
    /\ idx = 0
    /\ bld = 0
    /\ chk = 0
    /\ log = <<>>
    /\ exc = ""
    /\ the_tree = 0
    /\ hist = <<>>
    /\ TablesIdle
    /\ TypesIdle
    /\ LexIdle
    /\ DriverIdle

SpecReturn == ReturnInit /\ [][CompileNext]_vars

\* The return statement of a tree and the function around it.
FuncOf(tree) == tree.decls[5]

ReturnOf(tree) ==
    LET stmt == FuncOf(tree).body.stmts[1] IN
    IF stmt.k = "IfStmt" THEN stmt.body.stmts[1] ELSE stmt

\* A type of the tree with the alias T replaced by what it is declared as.
Aliased(tree, type) ==
    IF type.k = "RefType" THEN tree.decls[1].type ELSE type

\* The declared type of what is returned: int for the literal, the type of
\* its declaration for a name.
ReturnedType(tree) ==
    LET e == ReturnOf(tree).ret_expr IN
    IF e.k = "IntExpr" THEN TInt
    ELSE LET i == CHOOSE i \in 2..4 : tree.decls[i].name = e.name
         IN Aliased(tree, tree.decls[i].type)

ReturnAllowed(tree) ==
    IF Aliased(tree, FuncOf(tree).type.return_type).k = "VoidType"
    THEN ReturnOf(tree).ret_expr.k = "None"
    ELSE /\ ReturnOf(tree).ret_expr.k # "None"
         /\ ReturnedType(tree) =
                Aliased(tree, FuncOf(tree).type.return_type)

\* C24: in a function whose expanded return type is void a return is
\* accepted if and only if it has no expression; in any other function it
\* is accepted if and only if it has an expression whose type is
\* equivalent to the return type; a rejected return ends the run with the
\* fatal C50.
C24_ReturnMatchesFunction ==
    Len(hist) >= 1 =>
        IF ReturnAllowed(hist[1].ast) THEN Passed(hist[1])
        ELSE Rejected(hist[1], C_TYPE_MISMATCH)

\* What the Checker does: a return is accepted in a void function without
\* expression, and in an int or long function with the variable of that
\* same written type; every other one, the literal 1 and every return in
\* a function declared with the alias included, is rejected with C50.
ReturnsAsChecked ==
    Len(hist) >= 1 =>
        LET rtype == FuncOf(hist[1].ast).type.return_type
            e == ReturnOf(hist[1].ast).ret_expr
        IN IF \/ rtype.k = "VoidType" /\ e.k = "None"
              \/ rtype = TInt /\ e.k = "NameExpr" /\ e.name = "x"
              \/ rtype = TLong /\ e.k = "NameExpr" /\ e.name = "y"
           THEN Passed(hist[1])
           ELSE Rejected(hist[1], C_TYPE_MISMATCH)

(***************************************************************************)
(* C25: the properties of an expression                                    *)
(***************************************************************************)
\* The module scope (1) of `let x: int; set c: int := 1; func f(p: int)`
\* and the function scope (2) of f, where p is bound.
PropertyEnv ==
    LET Bound(st, scope, sym) ==
            LET r == bind_symbol(st, scope, sym, FALSE)
            IN [tabs |-> r.tabs, syms |-> r.syms]
    IN Bound(Bound(Bound(Bound(
           [tabs |-> <<ModuleTable(None, 0), FuncTable(None, 1)>>,
            syms |-> <<>>],
           1, VarSymbol("x", TInt, FALSE, None)),
           1, ConstSymbol("c", TInt, FALSE, None)),
           1, FuncSymbol("f", FuncType(FALSE, Void, <<TInt>>, FALSE), FALSE,
                         FALSE, 2)),
           2, ParamSymbol("p", TInt))

Named(name) == NameExpr(name, NoLoc)

One == IntExpr(PyStr("int"), 1, NoLoc)

\* The expressions without operands that count: the literals 1 and "s",
\* the names, sizeof, `x[1]`, `x.a`, `*x`, `&x`, `x := 1`, `f()` and an
\* array literal.
PropertyLeaves ==
    {One, Expr1("StrExpr", "utf8", <<115>>),
     Named("x"), Named("c"), Named("p"), Named("f"),
     Expr1("SzexprExpr", "expr", Named("x")),
     Expr1("SztypeExpr", "type", TInt),
     IndexExpr(Named("x"), One), AccessExpr(Named("x"), "a"),
     Expr1("DerefExpr", "pointer_expr", Named("x")),
     Expr1("AddrOfExpr", "expr", Named("x")),
     AssignExpr(Named("x"), One, "", NoLoc),
     CallExpr(Named("f"), <<One>>),
     ComplexExpr("array", <<One>>, NoLoc)}

Casted(expr) == CastExpr(expr, TLong, FALSE, NoLoc)

\* The operands of the expressions of two and three operands.
PropertyOperands ==
    {One, Expr1("StrExpr", "utf8", <<115>>), Named("x"), Named("c"),
     Named("p"), Expr1("DerefExpr", "pointer_expr", Named("x")),
     Casted(Named("x")), UnaryExpr("UnaryExpr", "UnaryMinus", Named("c")),
     TernaryExpr(One, Named("c"), Named("c"))}

PropertyExprs ==
    PropertyLeaves
    \cup {Casted(e) : e \in PropertyLeaves \cup PropertyOperands}
    \cup {UnaryExpr(cls, op, e) :
            cls \in {"UnaryExpr"}, op \in {"UnaryMinus"},
            e \in PropertyLeaves \cup PropertyOperands}
    \cup {UnaryExpr("UnaryCondExpr", "LogicalNot", e) :
            e \in PropertyLeaves \cup PropertyOperands}
    \cup {BinaryExpr(l, "Add", r, NoLoc) :
            l \in PropertyOperands, r \in PropertyOperands}
    \cup {BinaryCondExpr(l, "Eq", r, NoLoc) :
            l \in PropertyOperands, r \in PropertyOperands}
    \cup {TernaryExpr(cond, l, r) :
            cond \in {One, Named("x")}, l \in PropertyOperands,
            r \in PropertyOperands}
    \cup {CommaExpr(<<l, r>>, NoLoc) :
            l \in PropertyOperands, r \in PropertyOperands}

\* ExprPropertyChecker(scope).visit(tA) for an expression tA and a scope
\* of the environment.
PropertyInit ==
    /\ tabs = PropertyEnv.tabs
    /\ syms = PropertyEnv.syms
    /\ tScope \in {1, 2}
    /\ tA \in PropertyExprs
    /\ tB = 0
    /\ tpc = "args"
    /\ tOut = NoProperty
    /\ DriverIdle
    /\ CompileIdle
    /\ LexIdle

CallExprPropertyChecker ==
    /\ tpc = "args"
    /\ tpc' = "ExprPropertyChecker"
    /\ tOut' = ExprPropertyChecker(tabs, syms, tScope, tA)
    /\ UNCHANGED <<tScope, tA, tB, driverVars, tableVars, compileVars,
                 lexVars>>

SpecProperty == PropertyInit /\ [][CallExprPropertyChecker]_vars

\* The operands of an expression whose properties come from its operands.
OperandsOf(e) ==
    CASE e.k \in {"CastExpr", "UnaryExpr", "UnaryCondExpr"} -> <<e.expr>>
      [] e.k \in {"BinaryExpr", "BinaryCondExpr"} -> <<e.left, e.right>>
      [] e.k = "TernaryExpr" -> <<e.cond_expr, e.true_expr, e.false_expr>>
      [] e.k = "CommaExpr" -> e.exprs
      [] OTHER -> <<>>

\* The class of the symbol a name has in the scope, "" when it has none.
BoundTo(name) ==
    LET sym == get_namesym(tabs, tScope, name, FALSE)
    IN IF sym = 0 THEN "" ELSE syms[sym].cls

RECURSIVE IsConstant(_)
IsConstant(e) ==
    CASE e.k \in {"IntExpr", "StrExpr", "SzexprExpr", "SztypeExpr"} -> TRUE
      [] e.k = "NameExpr" -> BoundTo(e.name) = "ConstSymbol"
      [] e.k \in {"CastExpr", "UnaryExpr", "UnaryCondExpr", "BinaryExpr",
                  "BinaryCondExpr", "TernaryExpr", "CommaExpr"} ->
            \A i \in 1..Len(OperandsOf(e)) : IsConstant(OperandsOf(e)[i])
      [] OTHER -> FALSE

RECURSIVE IsLvalue(_)
IsLvalue(e) ==
    CASE e.k \in {"IndexExpr", "AccessExpr", "DerefExpr", "AssignExpr"} ->
            TRUE
      [] e.k = "NameExpr" -> BoundTo(e.name) = "VarSymbol"
      [] e.k = "TernaryExpr" -> IsLvalue(e.true_expr) /\ IsLvalue(e.false_expr)
      [] OTHER -> FALSE

\* C25: for every expression ExprPropertyChecker returns a property, and it
\* is the pair of the rules: constant are the integer and string literals
\* and the two sizeof forms, a name bound to a ConstSymbol, and a cast, a
\* unary, binary, ternary or comma expression of constant operands; lvalues
\* are Index, Access, Deref, Assign, a name bound to a VarSymbol and a
\* ternary of two lvalue branches, and nothing else.
C25_PropertiesByRule ==
    tpc = "ExprPropertyChecker" =>
        tOut = ExprProperty(IsConstant(tA), IsLvalue(tA))

\* The sub-expressions ExprPropertyChecker reads the properties of.
RECURSIVE Read(_)
Read(e) ==
    {e} \cup UNION {Read(OperandsOf(e)[i]) : i \in 1..Len(OperandsOf(e))}

\* What ExprPropertyChecker does: on an expression without string literal
\* and without ternary it returns a property whose constant part is that
\* of the rules; the lvalue part is that of the rules except for a cast
\* and a comma, which pass on the lvalue of their (last) operand.
PropertiesAsComputed ==
    /\ tpc = "ExprPropertyChecker"
    /\ \A s \in Read(tA) : s.k \notin {"StrExpr", "TernaryExpr"}
    => /\ tOut.ok
       /\ tOut.const = IsConstant(tA)
       /\ tA.k \notin {"CastExpr", "CommaExpr"} => tOut.lvalue = IsLvalue(tA)

\* A ternary expression that is visited gives no property.
TernaryRaises ==
    tpc = "ExprPropertyChecker" /\ tA.k = "TernaryExpr" => ~tOut.ok

(***************************************************************************)
(* C30: the scope of the Checker                                           *)
(***************************************************************************)
\* `using U := int; using T := int or U; let x: int;`, the function
\* `func f(p: T) -> (void) { let y: T; <inner> y; }` whose inner statement
\* is `p;` alone, in a block, in the body of an if or of a loop on x, or a
\* block declaring `using X := T;`, and after it or not
\* `func g() -> (void) { x; } let t: T;`.
ScopeCfgs ==
    [alias : {"int", "U"}, inner : {"use", "block", "if", "loop", "using"},
     after : BOOLEAN]

ScopeModule(cfg) ==
    LET T == RefType(FALSE, "T")
        inner ==
            CASE cfg.inner = "use" -> Use("p", 2, 40)
              [] cfg.inner = "block" -> Block(Use("p", 2, 50), 40)
              [] cfg.inner = "if" ->
                    OnX("IfStmt", Block(Use("p", 2, 60), 50), None, 40)
              [] cfg.inner = "loop" ->
                    OnX("IterStmt", Block(Use("p", 2, 60), 50), None, 40)
              [] cfg.inner = "using" -> Block(Local(Using("X", T, 2, 50)), 40)
        f == Func("f", <<T>>, <<"p">>,
                  Body(<<Local(Let("y", T, None, 2, 22)), inner,
                         Use("y", 2, 96)>>, 2),
                  <<FALSE, FALSE>>, 2)
    IN Module(<<Using("U", TInt, 1, 0),
                Using("T", IF cfg.alias = "U" THEN RefType(FALSE, "U")
                           ELSE TInt, 1, 20),
                Let("x", TInt, None, 1, 40), f>>
              \o (IF cfg.after
                  THEN <<Func("g", <<>>, <<>>, Body(<<Use("x", 3, 30)>>, 3),
                              <<FALSE, FALSE>>, 3),
                         Let("t", T, None, 4, 0)>>
                  ELSE <<>>),
              Span(1, 0, 4, 99))

\* GenerateTable and the Checker on these modules and on those with a type
\* declaration that fails a check of pass A.
ScopeInit ==
    /\ ast \in {ScopeModule(cfg) : cfg \in ScopeCfgs}
               \cup {NestedModule(place, type) :
                        place \in Placements, type \in DeclaredTypes}
    /\ pc = "GenerateTable"
    /\ idx = 0
    /\ bld = 0
    /\ chk = 0
    /\ log = <<>>
    /\ exc = ""
    /\ the_tree = 0
    /\ hist = <<>>
    /\ TablesIdle
    /\ TypesIdle
    /\ LexIdle
    /\ DriverIdle

SpecScope == ScopeInit /\ [][CompileNext]_vars

\* The nodes of the module, each with the table the builder had as the
\* current one at it: the table of the enclosing FuncDecl with a body or
\* CompoundStmt, which the builder has left in their symref.
BuilderScopes ==
    {[node |-> [k |-> u.node.k, loc |-> LocOf(u.node)], scope |-> u.scope] :
        u \in NodesIn(ast, 1)}

CheckerRuns == pc \in {"pass A", "pass B", "checked"}

\* visit_Module has returned.
CheckerReturned == pc = "checked" /\ exc = ""

\* C30: every node the Checker is called on, in either pass, is visited
\* with the scope the builder had at that node, and when visit_Module
\* returns the scope is the module table again, typenames is empty and
\* last_if, last_iter and ret_type are None. The nodes visit_RefType
\* reaches through a type name are those of its declaration, visited with
\* the scope of that declaration.
C30_ScopeFollowsBuilder ==
    /\ CheckerRuns => chk.visited \subseteq BuilderScopes
    /\ CheckerReturned =>
            /\ chk.scope = the_tree
            /\ tabs[chk.scope].type = "module"
            /\ chk.typenames = <<>>
            /\ chk.last_if = None
            /\ chk.last_iter = None
            /\ chk.ret_type = None

\* A finished run that has been in a block inside the body of f, in the
\* body of g, and at the declaration of t after them.
C30_BackFromNestedScopes ==
    /\ CheckerReturned
    /\ ~chk.typedef_check
    /\ \E e \in chk.visited :
            /\ tabs[e.scope].type = "block"
            /\ tabs[tabs[e.scope].parent].type = "block"
    /\ \E e \in chk.visited :
            e.node.k = "VarDecl" /\ e.node.loc[1] = 4 /\ e.scope = the_tree
    /\ \E e \in chk.visited :
            e.node.k = "NameExpr" /\ e.node.loc[1] = 3 /\ e.scope # the_tree

====
